---------------------------- MODULE Spec2Model ----------------------------
(***************************************************************************)
(* A model of nbquarto: the directive grammar and extractor                *)
(* (src/src/nbquarto/process.py), the language comment map                 *)
(* (src/src/nbquarto/utils.py), the notebook cells                         *)
(* (src/src/nbquarto/notebook.py), the processors and the pipeline engine  *)
(* (src/src/nbquarto/processor.py) and the command line driver             *)
(* (src/src/nbquarto/cli.py).                                              *)
(*                                                                         *)
(* Text is a sequence of one-character strings, so that the regular        *)
(* expressions, strip, split, replace and slicing of the source act on     *)
(* characters as they do in Python.                                        *)
(***************************************************************************)
EXTENDS Integers, Sequences, FiniteSets, TLC

(***************************************************************************)
(* Characters and the character classes of Python's re module              *)
(***************************************************************************)
Letters ==
    {"a", "b", "c", "d", "e", "f", "g", "h", "i", "j", "k", "l", "m", "n",
     "o", "p", "q", "r", "s", "t", "u", "v", "w", "x", "y", "z", "T", "V",
     "K", "E"}

Digits == {"0", "1", "2", "3", "4", "5", "6", "7", "8", "9"}

\* \w
IsWord(c) == c \in Letters \cup Digits \cup {"_"}

\* \s, and what str.strip / str.split take for whitespace
IsSpace(c) == c \in {" ", "\n", "\t"}

\* [\w|-]
IsNameChar(c) == IsWord(c) \/ c \in {"|", "-"}

None == "<None>"

\* s[i:] with a 0-based i, as a Python slice
From(s, i) == IF i >= Len(s) THEN <<>> ELSE SubSeq(s, i + 1, Len(s))

\* s[:i] with a 0-based i, as a Python slice
Upto(s, i) == IF i <= 0 THEN <<>> ELSE SubSeq(s, 1, IF i > Len(s) THEN Len(s) ELSE i)

\* the 0-based index of the first character at or after i that is not
\* white space: the end of a greedy \s* started at i
RECURSIVE SkipSpace(_, _)
SkipSpace(s, i) ==
    IF i < Len(s) /\ IsSpace(s[i + 1]) THEN SkipSpace(s, i + 1) ELSE i

\* the end of a greedy \w* started at i
RECURSIVE SkipWord(_, _)
SkipWord(s, i) ==
    IF i < Len(s) /\ IsWord(s[i + 1]) THEN SkipWord(s, i + 1) ELSE i

\* the end of a greedy [\w|-]* started at i
RECURSIVE SkipName(_, _)
SkipName(s, i) ==
    IF i < Len(s) /\ IsNameChar(s[i + 1]) THEN SkipName(s, i + 1) ELSE i

\* whether the literal text lit stands in s at the 0-based index i
LitAt(s, i, lit) ==
    /\ i + Len(lit) <= Len(s)
    /\ \A k \in 1..Len(lit) : s[i + k] = lit[k]

RECURSIVE Concat(_)
Concat(ss) == IF ss = <<>> THEN <<>> ELSE Head(ss) \o Concat(Tail(ss))

\* str.strip(), str.lstrip()
lstrip(s) == From(s, SkipSpace(s, 0))

RECURSIVE rstrip(_)
rstrip(s) ==
    IF s # <<>> /\ IsSpace(s[Len(s)]) THEN rstrip(SubSeq(s, 1, Len(s) - 1)) ELSE s

strip(s) == rstrip(lstrip(s))

\* the end of a run of characters that are not white space, started at i
RECURSIVE SkipToken(_, _)
SkipToken(s, i) ==
    IF i < Len(s) /\ ~IsSpace(s[i + 1]) THEN SkipToken(s, i + 1) ELSE i

\* str.split(): the maximal runs of characters that are not white space
RECURSIVE split(_)
split(s) ==
    IF lstrip(s) = <<>> THEN <<>>
    ELSE <<Upto(lstrip(s), SkipToken(lstrip(s), 0))>>
            \o split(From(lstrip(s), SkipToken(lstrip(s), 0)))

\* str.replace(":", new)
RECURSIVE ReplaceColon(_, _)
ReplaceColon(s, new) ==
    IF s = <<>> THEN <<>>
    ELSE (IF Head(s) = ":" THEN new ELSE <<Head(s)>>) \o ReplaceColon(Tail(s), new)

\* the end of the line that starts at i: past its "\n", or the end of s
RECURSIVE EndOfLine(_, _)
EndOfLine(s, i) ==
    IF i >= Len(s) THEN i
    ELSE IF s[i + 1] = "\n" THEN i + 1 ELSE EndOfLine(s, i + 1)

\* str.splitlines(True): the lines of s, each keeping its line terminator
RECURSIVE splitlines(_)
splitlines(s) ==
    IF s = <<>> THEN <<>>
    ELSE <<Upto(s, EndOfLine(s, 0))>> \o splitlines(From(s, EndOfLine(s, 0)))

(***************************************************************************)
(* utils.py: the language comment map                                      *)
(***************************************************************************)
HashLangs ==
    {"r", "python", "julia", "powershell", "bash", "stan", "octave", "awk",
     "gawk", "sed", "perl", "ruby", "coffee"}

SlashLangs ==
    {"scala", "csharp", "fsharp", "cpp", "cc", "java", "groovy", "js", "d3",
     "node", "sass", "go", "asy", "dot"}

PercentLangs == {"matlab", "tikz"}

DashLangs == {"sql", "mysql", "psql", "lua", "haskell"}

BangLangs == {"fortran", "fortran95"}

BlockLangs == {"c", "css"}

\* the keys the map is built with
RegisteredLangs ==
    HashLangs \cup SlashLangs \cup PercentLangs \cup DashLangs \cup BangLangs
        \cup BlockLangs \cup {"sas", "stata", "apl"}

\* A marker is a str, or a list of two str. text is what an f-string makes
\* of it: the marker itself, or the repr of the list.
StrMarker(t) == [list |-> FALSE, text |-> t]

ListMarker(t) == [list |-> TRUE, text |-> t]

\* the value stored under a registered key
LangEntry(language) ==
    CASE language \in HashLangs -> StrMarker(<<"#">>)
      [] language \in SlashLangs -> StrMarker(<<"/", "/">>)
      [] language \in PercentLangs -> StrMarker(<<"%">>)
      [] language \in DashLangs -> StrMarker(<<"-", "-">>)
      [] language \in BangLangs -> StrMarker(<<"!">>)
      [] language = "stata" -> StrMarker(<<"*">>)
      [] language = "apl" -> StrMarker(<<"@">>)   \* stands for the APL lamp sign
      [] language \in BlockLangs ->
            ListMarker(<<"[", "'", "/", "*", "'", ",", " ", "'", "*", "/", "'", "]">>)
      [] language = "sas" ->
            ListMarker(<<"[", "'", "*", "'", ",", " ", "'", ";", "'", "]">>)

\* what a missing key gives when the map was built with no default_factory:
\* defaultdict(r="#", ...) passes every argument as an initial item, so
\* __missing__ raises KeyError
LangsMissing(language) == [raised |-> "KeyError", marker |-> StrMarker(<<>>)]

\* langs[language]
langs(language) ==
    IF language \in RegisteredLangs
    THEN [raised |-> "none", marker |-> LangEntry(language)]
    ELSE LangsMissing(language)

(***************************************************************************)
(* process.py: the directive grammar                                       *)
(***************************************************************************)
\* The pattern rf"\s*{marker}\s*\|" once compiled. A str marker of plain
\* characters stands for itself; "*" after \s* is a second repeat, which
\* re.compile refuses; the repr of a list is a character set.
CompileMarker(marker) ==
    IF marker.list
    THEN [kind |-> "set",
          chars |-> {marker.text[k] : k \in 2..(Len(marker.text) - 1)},
          lit |-> <<>>]
    ELSE IF \E k \in 1..Len(marker.text) : marker.text[k] = "*"
    THEN [kind |-> "error", chars |-> {}, lit |-> <<>>]
    ELSE [kind |-> "lit", chars |-> {}, lit |-> marker.text]

\* re.compile of the pattern: re.error for a pattern that does not compile
Compiled(raised, re) ==
    IF raised # "none" THEN [raised |-> raised, re |-> re]
    ELSE IF re.kind = "error" THEN [raised |-> "re.error", re |-> re]
    ELSE [raised |-> "none", re |-> re]

\* langs[language] inside the f-string of format_directive
PatternOf(found) == Compiled(found.raised, CompileMarker(found.marker))

\* format_directive(language), compiled: the pattern, or the exception of
\* the lookup or of re.compile
format_directive(language) == PatternOf(langs(language))

\* the end of the match of \s*\| started at i, or -1
PipeAfter(s, i) ==
    LET j == SkipSpace(s, i)
    IN  IF j < Len(s) /\ s[j + 1] = "|" THEN j + 1 ELSE -1

\* \s*<marker>\s*\| from the first character j that is not white space:
\* pipe is where \s*\| ends after one character of the set
MatchSetAt(re, s, i, j, pipe) ==
    IF j < Len(s) /\ s[j + 1] \in re.chars /\ pipe >= 0 THEN pipe
    ELSE IF /\ \E k \in i..(j - 1) : s[k + 1] \in re.chars
            /\ j < Len(s) /\ s[j + 1] = "|"
    THEN j + 1
    ELSE -1

MatchMarkerAt(re, s, i, j) ==
    CASE re.kind = "lit" ->
            IF LitAt(s, j, re.lit) THEN PipeAfter(s, j + Len(re.lit)) ELSE -1
      [] re.kind = "set" ->
            MatchSetAt(re, s, i, j, IF j < Len(s) THEN PipeAfter(s, j + 1) ELSE -1)
      [] OTHER -> -1

\* The 0-based end of the match of \s*<marker>\s*\| at the 0-based index i
\* of s, or -1 when there is none. With a character set the greedy \s* may
\* give back a space that the set then takes.
MatchDirectiveAt(re, s, i) == MatchMarkerAt(re, s, i, SkipSpace(s, i))

\* \s*[\w|-]+\s*: after the directive prefix that ends at p; a is where the
\* name starts, b where it ends
MatchNameAt(s, a, b) ==
    IF b > a /\ SkipSpace(s, b) < Len(s) /\ s[SkipSpace(s, b) + 1] = ":"
    THEN SkipSpace(s, b) + 1
    ELSE -1

MatchQuartoAfter(s, p) ==
    IF p < 0 THEN -1 ELSE MatchNameAt(s, SkipSpace(s, p), SkipName(s, SkipSpace(s, p)))

\* The end of the match of quarto_regex(language) at index i, or -1:
\* the directive prefix, then \s*[\w|-]+\s*:
MatchQuartoAt(re, s, i) == MatchQuartoAfter(s, MatchDirectiveAt(re, s, i))

\* cell_magic.match(line): ^\s*%%\w+
cell_magic(line) ==
    LET j == SkipSpace(line, 0)
    IN  LitAt(line, j, <<"%", "%">>) /\ SkipWord(line, j + 2) > j + 2

\* regex.sub("", content): every match, leftmost first, is cut out
RECURSIVE SubQuarto(_, _, _)
SubQuartoStep(re, s, i, m) ==
    IF m >= 0 THEN SubQuarto(re, s, m) ELSE <<s[i + 1]>> \o SubQuarto(re, s, i + 1)

SubQuarto(re, s, i) ==
    IF i >= Len(s) THEN <<>> ELSE SubQuartoStep(re, s, i, MatchQuartoAt(re, s, i))

\* the value of a cell's source field: a str, None, or no field at all
Str(t) == [k |-> "str", s |-> t]

NoneSource == [k |-> "none", s |-> <<>>]

Absent == [k |-> "absent", s |-> <<>>]

\* first_code_line(code_list, language=language): the 0-based index of the
\* first line that is not blank, not a directive line and not a cell magic;
\* -1 stands for the None returned when there is no such line
RECURSIVE FirstCodeFrom(_, _, _)
FirstCodeFrom(re, code_list, i) ==
    IF i >= Len(code_list) THEN -1
    ELSE IF /\ strip(code_list[i + 1]) # <<>>
            /\ MatchDirectiveAt(re, code_list[i + 1], 0) < 0
            /\ ~cell_magic(code_list[i + 1])
    THEN i
    ELSE FirstCodeFrom(re, code_list, i + 1)

FirstCodeWith(pattern, code_list) ==
    IF pattern.raised # "none"
    THEN [raised |-> pattern.raised, index |-> -1]
    ELSE [raised |-> "none", index |-> FirstCodeFrom(pattern.re, code_list, 0)]

first_code_line(code_list, language) ==
    FirstCodeWith(format_directive(language), code_list)

\* lines[:first_code] and lines[first_code:]. A first_code of None makes
\* both slices the whole list.
SliceBefore(lines, first_code) == IF first_code < 0 THEN lines ELSE Upto(lines, first_code)

SliceFrom(lines, first_code) == IF first_code < 0 THEN lines ELSE From(lines, first_code)

\* lines 64-66 of partition_cell
Partition(lines, first_code) ==
    IF first_code.raised # "none"
    THEN [raised |-> first_code.raised, directives |-> <<>>, code |-> <<>>]
    ELSE [raised |-> "none",
          directives |-> SliceBefore(lines, first_code.index),
          code |-> SliceFrom(lines, first_code.index)]

PartitionLines(lines, language) == Partition(lines, first_code_line(lines, language))

\* partition_cell(cell, language)
partition_cell(cell, language) ==
    IF cell.source.k = "absent"
    THEN [raised |-> "AttributeError", directives |-> <<>>, code |-> <<>>]
    ELSE IF cell.source.k = "none" \/ cell.source.s = <<>>
    THEN [raised |-> "none", directives |-> <<>>, code |-> <<>>]
    ELSE PartitionLines(splitlines(cell.source.s), language)

\* line 81: m is where the match ends, rest is regex.sub("", content)
FixWith(content, m, rest) ==
    IF m >= 0 THEN Upto(content, m) \o <<" ">> \o lstrip(rest) ELSE content

FixQuarto(re, content) ==
    FixWith(content, MatchQuartoAt(re, content, 0), SubQuarto(re, content, 0))

\* fix_quarto_directives(content, language), for a language whose pattern
\* compiles: the matched prefix, one space, and the content with every match
\* cut out and its leading white space stripped
fix_quarto_directives(content, language) ==
    FixQuarto(format_directive(language).re, content)

\* line 94: the matched prefix becomes f"{langs[language]}|"
Canonical(marker, content, m) ==
    IF m >= 0 THEN marker.text \o <<"|">> \o From(content, m) ELSE content

\* lines 95-96: a content that ends in a colon loses every colon
DropColons(content, stripped) ==
    IF stripped # <<>> /\ stripped[Len(stripped)] = ":"
    THEN ReplaceColon(content, <<>>)
    ELSE content

\* lines 101-104
DirectiveOf(tokens) ==
    IF tokens = <<>>
    THEN [none |-> TRUE, directive |-> <<>>, args |-> <<>>]
    ELSE [none |-> FALSE, directive |-> Head(tokens), args |-> Tail(tokens)]

\* lines 95-104, from the content that line 94 left
ParseDirective(content) ==
    DirectiveOf(split(strip(From(strip(
        ReplaceColon(DropColons(content, strip(content)), <<":", " ">>)), 2))))

GetDirective(marker, content) ==
    ParseDirective(Canonical(marker, content,
                             MatchDirectiveAt(CompileMarker(marker), content, 0)))

\* get_directive(content, language), for a language whose pattern compiles:
\* none is TRUE for the None returned when no token is left
get_directive(content, language) == GetDirective(langs(language).marker, content)

\* dict(pairs): a dict as the sequence of its items in insertion order; a
\* key met again keeps its place and takes the new value
RECURSIVE DictOf(_)
DictOf(pairs) ==
    IF pairs = <<>> THEN <<>>
    ELSE LET last == pairs[Len(pairs)]
             rest == DictOf(SubSeq(pairs, 1, Len(pairs) - 1))
         IN  IF \E k \in 1..Len(rest) : rest[k].directive = last.directive
             THEN [k \in 1..Len(rest) |->
                      IF rest[k].directive = last.directive THEN last ELSE rest[k]]
             ELSE Append(rest, last)

\* key in d
HasKey(d, key) == \E k \in 1..Len(d) : d[k].directive = key

\* lines 124-131: the directive lines that stay, fixed, and then the code
Rewritten(re, part) ==
    Concat([k \in 1..Len(part.directives) |->
                IF MatchQuartoAt(re, part.directives[k], 0) >= 0
                        \/ cell_magic(part.directives[k])
                THEN FixQuarto(re, part.directives[k])
                ELSE <<>>])
        \o Concat(part.code)

\* line 132: the items handed to dict()
Found(marker, part) ==
    [k \in 1..Len(part.directives) |-> GetDirective(marker, part.directives[k])]

\* line 132: dict() of an item that is None raises TypeError
Extracted(source, found) ==
    IF \E k \in 1..Len(found) : found[k].none
    THEN [raised |-> "TypeError", source |-> source, directives_ |-> <<>>]
    ELSE [raised |-> "none", source |-> source,
          directives_ |-> DictOf([k \in 1..Len(found) |->
                [directive |-> found[k].directive, args |-> found[k].args]])]

ExtractFrom(cell, remove_directives, pattern, marker, part) ==
    IF part.raised # "none"
    THEN [raised |-> part.raised, source |-> cell.source, directives_ |-> <<>>]
    ELSE Extracted(IF remove_directives
                   THEN Str(Rewritten(pattern.re, part))
                   ELSE cell.source,
                   Found(marker, part))

\* extract_directives(cell, remove_directives, language): the exception it
\* raises if any, the cell's source when it returns or raises, and the
\* mapping it returns
extract_directives(cell, remove_directives, language) ==
    ExtractFrom(cell, remove_directives, format_directive(language),
                langs(language).marker, partition_cell(cell, language))

(***************************************************************************)
(* The state                                                               *)
(***************************************************************************)
VARIABLES
    heap,               \* the cell objects: heap[c] is the cell with identity c
    cells,              \* notebook.cells: the identities, in document order
    kernel,             \* notebook.metadata.kernelspec.language, if any
    path,               \* NotebookProcessor.notebook_path
    remove_directives,  \* NotebookProcessor.remove_directives
    configured,         \* the processors list handed to NotebookProcessor
    processors,         \* NotebookProcessor.processors
    pc,                 \* where the run of NotebookProcessor stands
    p,                  \* process_notebook: the 1-based index of the processor
    it,                 \* process_notebook: how many cells the inner loop took
    raised,             \* the exception that ended the run, if any
    trace,              \* history: the calls made so far, in order
    loaded,             \* history: the cells as they were before construction
    passStart,          \* history: notebook.cells when the current pass began
    structural,         \* history: the current pass inserted or removed cells
    self,               \* the attributes of the processor whose pass is on
    xlang, xcell, xrm, xout, xpc,  \* one call of extract_directives
    xpart,              \* one call of partition_cell: what it returned
    xfix,               \* fix_quarto_directives on a line, and on its result
    config,             \* cli: the parsed configuration file
    cpc,                \* cli: where main() stands
    todo,               \* cli: the notebooks main() has still to process
    worked,             \* cli: the notebooks whose cells were processed
    written,            \* cli: the .qmd files written, with their content
    craised,            \* cli: the exception that ended main(), if any
    rcontent,           \* one raw-content processor: the text it is given
    rout,               \* what process() returned, once and applied again
    rpc                 \* whether process() was applied

engineVars ==
    <<heap, cells, kernel, path, remove_directives, configured, processors, pc,
      p, it, raised, trace, loaded, passStart, structural, self>>

extractVars == <<xlang, xcell, xrm, xout, xpc, xpart, xfix>>

cliVars == <<config, cpc, todo, worked, written, craised>>

rawVars == <<rcontent, rout, rpc>>

vars == <<engineVars, extractVars, cliVars, rawVars>>

(***************************************************************************)
(* notebook.py: cells                                                      *)
(***************************************************************************)
T_process == <<"p", "r", "o", "c", "e", "s", "s">>

\* "# This code has been processed!\n"
T_marker ==
    <<"#", " ", "T", "h", "i", "s", " ", "c", "o", "d", "e", " ", "h", "a", "s",
      " ", "b", "e", "e", "n", " ", "p", "r", "o", "c", "e", "s", "s", "e", "d",
      "!", "\n">>

T_None == <<"N", "o", "n", "e">>

\* NotebookCell(index, cell) for a cell of the notebook file
NotebookCell(index, cell_type, source) ==
    [cell_type |-> cell_type, source |-> source, directives_ |-> <<>>,
     index_ |-> index, metadata |-> "{}"]

\* make_cell(text, cell_type): directives_ is empty and index_ is 0
make_cell(text, cell_type) == NotebookCell(0, cell_type, Str(text))

\* a test that finds a source on every cell
hasattr_anything(cell) == TRUE

\* hasattr(cell, "source"): the key is in the dict, whatever its value
hasattr_source(cell) == cell.source.k # "absent"

\* notebook_language(notebook)
notebook_language(kernelspec_language) ==
    IF kernelspec_language = None THEN "python" ELSE kernelspec_language

(***************************************************************************)
(* processor.py: Processor, and the processors of this model               *)
(***************************************************************************)
\* Processor subclasses: the example of processors/example.py, the one of
\* tests/test_process.py, and plugins written to the contract of Processor
ProcessorClasses ==
    {"BasicProcessor", "TestBasicProcessor", "ClearProcessor",
     "DeleteNextProcessor", "RaiseProcessor", "NoopProcessor", "AppendProcessor",
     "CodeNoteProcessor", "AppendRaiseProcessor", "SwapProcessor"}

\* plain functions given as processors: def mark(cell) and def mark_(cell)
ProcessorFunctions == {"mark", "mark_"}

\* Processor.cell_types after __init__ wrapped it in a list
cell_types(class) ==
    CASE class = "NoopProcessor" -> {"markdown"}
      [] class \in {"AppendProcessor", "CodeNoteProcessor"} -> {"code", "markdown"}
      [] OTHER -> {"code"}

\* Processor.directives after __init__ wrapped it in a list
directives(class) == {T_process}

\* hasattr(processor, "begin"), hasattr(processor, "end")
hasattr_begin(processor) ==
    processor.kind \in {"NoopProcessor", "ClearProcessor", "CodeNoteProcessor"}

hasattr_end(processor) == processor.kind \in {"NoopProcessor", "AppendProcessor"}

\* processor.__module__ and processor.__class__.__name__
module_of(processor) ==
    CASE processor.kind = "BasicProcessor" -> "nbquarto.processors.example"
      [] processor.kind = "TestBasicProcessor" -> "test_process"
      [] processor.kind = "CodeNoteProcessor" -> "nbquarto.processors.codenotes_v2"
      [] processor.kind \in ProcessorFunctions -> "plugins"
      [] OTHER -> "plugins"

class_name_of(processor) ==
    IF processor.kind \in ProcessorFunctions THEN "function" ELSE processor.kind

\* Processor.has_directives(cell)
has_directives(class, cell) ==
    \E directive \in directives(class) : HasKey(cell.directives_, directive)

\* f"# This code has been processed!\n{cell.source}"
Marked(source) == Str(T_marker \o (IF source.k = "none" THEN T_None ELSE source.s))

\* an argument of an exception: its text, and in front of it the context
\* that process_notebook may have put there (none, or one)
Arg(t) == [context |-> <<>>, text |-> <<t>>]

\* type(*args): the exception object. An OSError made of two arguments
\* takes errno and strerror from them, as attributes of their own.
Raise(type, args) ==
    [type |-> type, args |-> args,
     attrs |-> IF type = "OSError" /\ Len(args) = 2
               THEN <<args[1].text[1], args[2].text[1]>> ELSE <<>>]

\* the exceptions a plugin may raise
Exceptions ==
    {Raise("ValueError", <<Arg("boom")>>),
     Raise("KeyError", <<>>),
     Raise("OSError", <<Arg("2"), Arg("no such file")>>)}

NoException == [type |-> "none", args |-> <<>>, attrs |-> <<>>]

\* str(e), the message of the exception: "[Errno {errno}] {strerror}" of
\* the attributes for an OSError that has them, else nothing for no
\* argument, the argument for one (for a KeyError its repr, inside
\* quotes), the tuple for more
Message(e) ==
    IF e.attrs # <<>>
    THEN [quoted |-> FALSE, context |-> <<>>,
          text |-> <<"[Errno ", e.attrs[1], "] ", e.attrs[2]>>]
    ELSE IF e.args = <<>>
    THEN [quoted |-> FALSE, context |-> <<>>, text |-> <<>>]
    ELSE IF Len(e.args) = 1
    THEN [quoted |-> e.type = "KeyError", context |-> e.args[1].context,
          text |-> e.args[1].text]
    ELSE [quoted |-> TRUE, context |-> e.args[1].context,
          text |-> <<"(">> \o e.args[1].text \o <<", ...)">>]

\* a reindex that leaves index_ as it was
ReindexNothing(h, cs) == h

\* lines 238-239: for i, cell in enumerate(cells): cell.index_ = i. A cell
\* object that stands at several positions ends with the last of them.
Reindex(h, cs) ==
    [c \in DOMAIN h |->
        IF \E i \in 1..Len(cs) : cs[i] = c
        THEN [h[c] EXCEPT !.index_ =
                (CHOOSE i \in 1..Len(cs) :
                    cs[i] = c /\ \A j \in 1..Len(cs) : cs[j] = c => j <= i) - 1]
        ELSE h[c]]

(***************************************************************************)
(* processors/codenotes_v2.py: CodeNoteProcessor                           *)
(***************************************************************************)
T_explain == <<"e", "x", "p", "l", "a", "i", "n">>

\* the character ` (a string of the model cannot hold it)
Backtick == "<backtick>"

\* "::: {.panel-tabset}\n\n## Code"
T_tabset ==
    <<":", ":", ":", " ", "{", ".", "p", "a", "n", "e", "l", "-", "t", "a",
      "b", "s", "e", "t", "}", "\n", "\n", "#", "#", " ", "C", "o", "d", "e">>

\* "## Code & Explanation"
T_second_tab ==
    <<"#", "#", " ", "C", "o", "d", "e", " ", "&", " ", "E", "x", "p", "l",
      "a", "n", "a", "t", "i", "o", "n">>

\* ":::"
T_close == <<":", ":", ":">>

\* "\n***\n```{.python}\n"
T_fence ==
    <<"\n", "*", "*", "*", "\n", Backtick, Backtick, Backtick, "{", ".", "p", "y", "t",
      "h", "o", "n", "}", "\n">>

\* "\n```" "\n:::" "{style='padding-top: 0px;'}" "\n"
T_styled ==
    <<"\n", Backtick, Backtick, Backtick, "\n", ":", ":", ":", "{", "s", "t", "y", "l",
      "e", "=", "'", "p", "a", "d", "d", "i", "n", "g", "-", "t", "o", "p",
      ":", " ", "0", "p", "x", ";", "'", "}", "\n">>

\* make_panel_tabset(): three new markdown cells
make_panel_tabset ==
    <<make_cell(T_tabset, "markdown"), make_cell(T_second_tab, "markdown"),
      make_cell(T_close, "markdown")>>

\* the end of a greedy [ \t]* started at i
RECURSIVE SkipBlank(_, _)
SkipBlank(s, i) ==
    IF i < Len(s) /\ s[i + 1] \in {" ", "\t"} THEN SkipBlank(s, i + 1) ELSE i

\* list(re.finditer(f"[ \t]*{lit}", source)) from the 0-based index i on:
\* the spans of the matches, which do not overlap
RECURSIVE FindIter(_, _, _)
RECURSIVE FindAt(_, _, _, _)
FindAt(lit, source, i, j) ==
    IF LitAt(source, j, lit)
    THEN <<[a |-> i, b |-> j + Len(lit)]>> \o FindIter(lit, source, j + Len(lit))
    ELSE FindIter(lit, source, i + 1)

FindIter(lit, source, i) ==
    IF i >= Len(source) THEN <<>> ELSE FindAt(lit, source, i, SkipBlank(source, i))

\* int(token) of a token made of digits
IsInt(token) == token # <<>> /\ \A k \in 1..Len(token) : token[k] \in Digits

DigitValue(d) == CHOOSE n \in 0..9 : <<"0", "1", "2", "3", "4", "5", "6", "7", "8", "9">>[n + 1] = d

RECURSIVE IntOf(_)
IntOf(token) ==
    IF token = <<>> THEN 0
    ELSE 10 * IntOf(SubSeq(token, 1, Len(token) - 1)) + DigitValue(token[Len(token)])

\* extract_code, lines 95-99, from the two lists of matches
Between(starts, ends, source, n, m) ==
    IF n >= Len(starts) \/ m >= Len(ends)
    THEN [raised |-> Raise("IndexError", <<Arg("list index out of range")>>),
          code |-> <<>>]
    ELSE [raised |-> NoException,
          code |-> From(Upto(source, ends[m + 1].b), starts[n + 1].a)]

extract_code(start_code, end_code, source, n, m) ==
    Between(FindIter(start_code, source, 0), FindIter(end_code, source, 0),
            source, n, m)

\* parse_multiline_code(code_cell, directives), lines 112-126; code_cell is
\* 0 for None
parse_multiline_code(h, code_cell, args) ==
    IF Len(args) \notin {3, 4}
    THEN [raised |-> Raise("ValueError", <<Arg("unpack")>>), code |-> <<>>]
    ELSE IF code_cell = 0
    THEN [raised |-> Raise("AttributeError",
                           <<Arg("'NoneType' object has no attribute 'source'")>>),
          code |-> <<>>]
    ELSE IF ~IsInt(args[2]) \/ (Len(args) = 4 /\ ~IsInt(args[4]))
    THEN [raised |-> Raise("ValueError", <<Arg("invalid literal for int()")>>),
          code |-> <<>>]
    ELSE extract_code(args[1], args[3], h[code_cell].source.s, IntOf(args[2]),
                      IF Len(args) = 4 THEN IntOf(args[4]) ELSE 0)

\* re.sub(r"\*|.*[\n]", "", source), line 61: every line that ends in a
\* newline goes, and every * of the last line
RECURSIVE LastLine(_)
LastLine(s) ==
    IF \E k \in 1..Len(s) : s[k] = "\n" THEN LastLine(Tail(s)) ELSE s

Explanation(source) == SelectSeq(LastLine(source), LAMBDA ch : ch # "*")

\* convert_explanation(explanation_cell, source_code), lines 59-66
convert_explanation(explanation_cell, source_code) ==
    make_cell(T_fence \o source_code \o T_styled
                \o Explanation(explanation_cell.source.s) \o <<"\n">> \o T_close,
              "markdown")

\* d[key] of a dict that has the key
Item(d, key) == d[CHOOSE k \in 1..Len(d) : d[k].directive = key].args

\* list.remove(x): the first cell equal to x goes, and NotebookCell.__eq__
\* compares source and cell_type
RemoveFirst(h, cs, x) ==
    LET i == CHOOSE i \in 1..Len(cs) :
                /\ h[cs[i]].source = h[x].source
                /\ h[cs[i]].cell_type = h[x].cell_type
                /\ \A j \in 1..(i - 1) :
                        \/ h[cs[j]].source # h[x].source
                        \/ h[cs[j]].cell_type # h[x].cell_type
    IN  SubSeq(cs, 1, i - 1) \o SubSeq(cs, i + 1, Len(cs))

\* the attributes of a CodeNoteProcessor after reset(), lines 167-174: the
\* cells of self.content are made when they are put into the notebook;
\* _code is 0 and start_index -1 for None
Reset(iteration, has_reset) ==
    [code |-> 0, start_index |-> -1, found_explanation |-> FALSE,
     explanations |-> <<>>, iteration |-> iteration, has_reset |-> has_reset]

\* begin(), lines 161-164
CodeNoteProcessor_begin == Reset(0, FALSE)

\* lines 177-183
Noted(me, cell, c) ==
    IF cell.cell_type = "code"
    THEN IF ~me.found_explanation
         THEN [me EXCEPT !.code = c, !.start_index = cell.index_]
         ELSE me
    ELSE IF cell.cell_type = "markdown" /\ HasKey(cell.directives_, T_explain)
    THEN [me EXCEPT !.found_explanation = TRUE,
                    !.explanations = Append(me.explanations, c)]
    ELSE me

\* lines 197-201: the explanations in turn, from the k-th on; made is the
\* list of the converted cells so far. The one whose directive cannot be
\* parsed raises, and the ones before it are out of the notebook by then.
RECURSIVE Explained(_, _, _, _, _)
ExplainedNext(me, h, cs, made, k, source) ==
    IF source.raised.type # "none"
    THEN [raised |-> source.raised, heap |-> h, cells |-> cs, made |-> made]
    ELSE Explained(me, Append(h, convert_explanation(h[me.explanations[k]], source.code)),
                   RemoveFirst(h, cs, me.explanations[k]),
                   Append(made, Len(h) + 1), k + 1)

Explained(me, h, cs, made, k) ==
    IF k > Len(me.explanations)
    THEN [raised |-> NoException, heap |-> h, cells |-> cs, made |-> made]
    ELSE ExplainedNext(me, h, cs, made, k,
            parse_multiline_code(h, me.code,
                Item(h[me.explanations[k]].directives_, T_explain)))

\* lines 206-216: the cells of self.content go in from start_index on, the
\* processor is reset and every cell of the notebook gets its position
Inserted(me, h, cs, content) ==
    IF (me.start_index = 0 /\ cs = <<>>) \/ me.start_index > Len(cs)
    THEN [heap |-> h, cells |-> cs, returned |-> None,
          raised |-> Raise("IndexError", <<Arg("list index out of range")>>),
          structural |-> TRUE, self |-> me]
    ELSE [heap |-> Reindex(h, Upto(cs, me.start_index) \o content
                                \o From(cs, me.start_index)),
          cells |-> Upto(cs, me.start_index) \o content \o From(cs, me.start_index),
          returned |-> None, raised |-> NoException, structural |-> TRUE,
          self |-> Reset(me.iteration + 1, TRUE)]

\* lines 202-205, with the tabset that reset() made as the last three
\* cells of the heap: header, second tab, closing
Grouped(me, r, tabset) ==
    IF r.raised.type # "none"
    THEN [heap |-> r.heap, cells |-> r.cells, returned |-> None,
          raised |-> r.raised, structural |-> TRUE, self |-> me]
    ELSE Inserted(me, r.heap \o tabset, RemoveFirst(r.heap, r.cells, me.code),
                  <<Len(r.heap) + 1, me.code, Len(r.heap) + 2, me.code>>
                    \o r.made \o <<Len(r.heap) + 3>>)

\* lines 185-216
Linked(me, h, cs, c) ==
    IF ~me.found_explanation
    THEN [heap |-> h, cells |-> cs, returned |-> None, raised |-> NoException,
          structural |-> FALSE, self |-> me]
    ELSE IF h[c].index_ + 1 >= Len(cs)
    THEN [heap |-> h, cells |-> cs, returned |-> None,
          raised |-> Raise("IndexError", <<Arg("list index out of range")>>),
          structural |-> FALSE, self |-> me]
    ELSE IF HasKey(h[cs[h[c].index_ + 2]].directives_, T_explain)
            /\ Len(cs) > h[c].index_ + 2
    THEN [heap |-> h, cells |-> cs, returned |-> None, raised |-> NoException,
          structural |-> FALSE, self |-> me]
    ELSE Grouped(me, Explained(me, h, cs, <<>>, 1), make_panel_tabset)

\* CodeNoteProcessor.process(cell), lines 176-216, of the instance with the
\* attributes me
CodeNoteProcessor_process(me, h, cs, c) == Linked(Noted(me, h[c], c), h, cs, c)

\* What process(cell) of each processor does to the cell objects and to
\* notebook.cells, what it returns ("cell" for the cell it was given, "other"
\* for a cell it made, which is then the last object of the heap, or None)
\* and what it raises. c is the identity of the cell, exc the exception a raising
\* plugin raises.
process(kind, h, cs, c, exc) ==
    LET cell == h[c]
        nothing == [heap |-> h, cells |-> cs, returned |-> None,
                    raised |-> NoException, structural |-> FALSE]
        gated == has_directives(kind, cell)
        nextpos == cell.index_ + 2
    IN  CASE kind = "BasicProcessor" ->
                IF gated
                THEN [nothing EXCEPT !.heap = [h EXCEPT ![c].source = Marked(cell.source)],
                                     !.returned = "cell"]
                ELSE [nothing EXCEPT !.returned = "cell"]
          [] kind \in {"TestBasicProcessor", "mark", "mark_"} ->
                IF gated
                THEN [nothing EXCEPT !.heap = [h EXCEPT ![c].source = Marked(cell.source)]]
                ELSE nothing
          [] kind = "ClearProcessor" ->
                IF gated
                THEN [nothing EXCEPT !.heap = [h EXCEPT ![c].source = NoneSource]]
                ELSE nothing
          [] kind = "DeleteNextProcessor" ->
                IF gated /\ nextpos <= Len(cs)
                THEN [nothing EXCEPT !.heap = [h EXCEPT ![cs[nextpos]].source = Absent]]
                ELSE nothing
          [] kind = "RaiseProcessor" ->
                IF gated THEN [nothing EXCEPT !.raised = exc] ELSE nothing
          [] kind = "AppendProcessor" ->
                IF gated
                THEN [nothing EXCEPT
                        !.heap = Append(h, make_cell(<<"n", "e", "w">>, "markdown")),
                        !.cells = Append(cs, Len(h) + 1),
                        !.structural = TRUE]
                ELSE nothing
          [] kind = "AppendRaiseProcessor" ->
                IF gated
                THEN [nothing EXCEPT
                        !.heap = Append(h, make_cell(<<>>, "code")),
                        !.cells = Append(cs, Len(h) + 1),
                        !.structural = TRUE]
                ELSE IF cell.source = Str(<<>>)
                     THEN [nothing EXCEPT !.raised = exc]
                     ELSE nothing
          [] kind = "SwapProcessor" ->
                IF gated
                THEN [nothing EXCEPT
                        !.heap = Append(h, make_cell(<<"o", "t", "h", "e", "r">>, "code")),
                        !.returned = "other"]
                ELSE nothing
          [] kind = "CodeNoteProcessor" -> CodeNoteProcessor_process(self, h, cs, c)
          [] OTHER -> nothing

\* a process_cell that forgets cell_types and hands every cell to process
process_any_cell(kind, h, cs, c, exc) ==
    [processed |-> TRUE, out |-> process(kind, h, cs, c, exc)]

\* Processor.process_cell(cell): process(cell) when the cell's type is one
\* of cell_types, else None; processed tells whether process ran
Processor_process_cell(kind, h, cs, c, exc) ==
    IF h[c].cell_type \in cell_types(kind)
    THEN [processed |-> TRUE, out |-> process(kind, h, cs, c, exc)]
    ELSE [processed |-> FALSE,
          out |-> [heap |-> h, cells |-> cs, returned |-> None,
                   raised |-> NoException, structural |-> FALSE]]

\* processor(cell): Processor.__call__ for an instance, the function itself
\* for a function
call(processor, h, cs, c, exc) ==
    IF processor.kind \in ProcessorFunctions
    THEN [processed |-> TRUE, out |-> process(processor.kind, h, cs, c, exc)]
    ELSE Processor_process_cell(processor.kind, h, cs, c, exc)

(***************************************************************************)
(* process.py: make_processors and is_directive                            *)
(***************************************************************************)
\* an entry of the processors list: a class or a function as configured, or
\* the instance of a class bound to a notebook
Configured(kind) == [kind |-> kind, notebook |-> <<>>]

\* make_processors(processors, notebook): every class becomes an instance
\* bound to the notebook, anything else stays. The entries are assigned in
\* the list that was handed in, and that list is what is returned.
make_processors(list, notebook) ==
    [i \in 1..Len(list) |->
        IF list[i].kind \in ProcessorClasses /\ list[i].notebook = <<>>
        THEN [kind |-> list[i].kind, notebook |-> notebook]
        ELSE list[i]]

\* getattr(processor, "__name__", "-"): an instance has no __name__
name_of(processor) ==
    CASE processor.kind = "mark" -> <<"m", "a", "r", "k">>
      [] processor.kind = "mark_" -> <<"m", "a", "r", "k", "_">>
      [] OTHER -> <<"-">>

\* is_directive(processor): name[-1] == "_"
is_directive(processor) == name_of(processor)[Len(name_of(processor))] = "_"


(***************************************************************************)
(* processor.py: NotebookProcessor                                         *)
(***************************************************************************)
\* an entry of the history: a hook called, the cells reindexed, or a cell
\* taken by the inner loop with what the call did
Event(e, k, c, pos, had_source, invoked, processed, cell_type, returned, exc) ==
    [e |-> e, p |-> k, cell |-> c, pos |-> pos, had_source |-> had_source,
     invoked |-> invoked, processed |-> processed, cell_type |-> cell_type,
     returned |-> returned, raised |-> exc]

HookEvent(e, k) == Event(e, k, 0, -1, FALSE, FALSE, FALSE, "", None, NoException)

\* __init__, lines 190-191: extract_directives on every cell in order; the
\* first exception ends the loop and leaves the cells as they then are
RECURSIVE ExtractAll(_, _, _, _, _)
ExtractNext(h, cs, i, rm, language, r) ==
    IF r.raised # "none"
    THEN [raised |-> r.raised, heap |-> [h EXCEPT ![cs[i]].source = r.source]]
    ELSE ExtractAll([h EXCEPT ![cs[i]].source = r.source,
                              ![cs[i]].directives_ = r.directives_],
                    cs, i + 1, rm, language)

ExtractAll(h, cs, i, rm, language) ==
    IF i > Len(cs) THEN [raised |-> "none", heap |-> h]
    ELSE ExtractNext(h, cs, i, rm, language,
                     extract_directives(h[cs[i]], rm, language))

\* the notebook read from a path, as the object a processor is bound to
read_notebook(notebook_path) == <<notebook_path>>

\* lines 192-193 once the loop of lines 190-191 gave r: self.processors is
\* the list that was handed in, with its classes replaced by instances
Constructed(r, made) ==
    /\ heap' = r.heap
    /\ IF r.raised # "none"
       THEN /\ pc' = "raised"
            /\ raised' = [type |-> r.raised, args |-> <<>>, attrs |-> <<>>]
            /\ processors' = processors
            /\ configured' = configured
       ELSE /\ pc' = IF configured = <<>> THEN "done" ELSE "begin"
            /\ raised' = raised
            /\ processors' = made
            /\ configured' = made

\* NotebookProcessor(path, processors=configured, remove_directives=...)
NotebookProcessorInit ==
    /\ pc = "new"
    /\ Constructed(ExtractAll(heap, cells, 1, remove_directives,
                              notebook_language(kernel)),
                   make_processors(configured, read_notebook(path)))
    /\ UNCHANGED <<cells, kernel, path, remove_directives, p, it, trace,
                   loaded, passStart, structural, self>>
    /\ UNCHANGED <<extractVars, cliVars, rawVars>>

\* a process_notebook that calls begin() for the first processor only
BeginFirstOnly ==
    /\ pc = "begin"
    /\ trace' = IF hasattr_begin(processors[p]) /\ p = 1
                THEN Append(trace, HookEvent("begin", p))
                ELSE trace
    /\ it' = 0
    /\ passStart' = cells
    /\ structural' = FALSE
    /\ pc' = "cells"
    /\ self' = IF processors[p].kind = "CodeNoteProcessor" /\ p = 1
               THEN CodeNoteProcessor_begin
               ELSE self
    /\ UNCHANGED <<heap, cells, kernel, path, remove_directives, configured,
                   processors, p, raised, loaded>>
    /\ UNCHANGED <<extractVars, cliVars, rawVars>>

\* process_notebook, lines 222-224: the next processor's begin()
Begin ==
    /\ pc = "begin"
    /\ trace' = IF hasattr_begin(processors[p])
                THEN Append(trace, HookEvent("begin", p))
                ELSE trace
    /\ it' = 0
    /\ passStart' = cells
    /\ structural' = FALSE
    /\ pc' = "cells"
    /\ self' = IF processors[p].kind = "CodeNoteProcessor"
               THEN CodeNoteProcessor_begin
               ELSE self
    /\ UNCHANGED <<heap, cells, kernel, path, remove_directives, configured,
                   processors, p, raised, loaded>>
    /\ UNCHANGED <<extractVars, cliVars, rawVars>>

\* process_notebook, lines 229-231: the context goes in front of args[0],
\*   f"Error processing notebook ({path}) cell {index_} with processor
\*     `{module}.{class}`: {args[0]}"
\* or stands alone as the only argument when there was none; the other
\* arguments and the object, with its type and attributes, stay
Contextualize(e, notebook_path, index_, processor) ==
    [e EXCEPT !.args =
        <<[context |-> <<[path |-> notebook_path, cell |-> index_,
                         processor |-> <<module_of(processor),
                                         class_name_of(processor)>>]>>,
           text |-> IF e.args # <<>> THEN e.args[1].text ELSE <<>>]>>
        \o (IF e.args # <<>> THEN Tail(e.args) ELSE <<>>)]

\* a handler without the raise: the error is dropped and the loop goes on
Swallows(e) == FALSE

\* process_notebook, line 232: the handler ends in a bare raise
Reraises(e) == TRUE

\* callable(processor) and not is_directive(processor)
Invokes(processor) == ~is_directive(processor)

\* an engine that looks at the directives before it calls: a cell without
\* any directive is not handed to the processor
process_cell_gated(processor, h, cs, c, exc) ==
    IF hasattr_source(h[c]) /\ h[c].directives_ # <<>>
    THEN [invoked |-> TRUE, processed |-> TRUE,
          out |-> process(processor.kind, h, cs, c, exc)]
    ELSE [invoked |-> FALSE, processed |-> FALSE,
          out |-> [heap |-> h, cells |-> cs, returned |-> None,
                   raised |-> NoException, structural |-> FALSE]]

\* a process_cell that puts the returned cell in the place of the visited one
Replaces(out, c) ==
    IF out.returned = "other"
    THEN [i \in 1..Len(out.cells) |->
            IF out.cells[i] = c THEN Len(out.heap) ELSE out.cells[i]]
    ELSE out.cells

\* lines 215-216: cell = processed_cell binds the local name cell, and
\* notebook.cells is as the call left it
Rebinds(out, c) == out.cells

\* lines 214-216: the processor is called; what it returns is bound to the
\* local name cell and dropped
Invoked(r, c) ==
    [invoked |-> TRUE, processed |-> r.processed,
     out |-> [r.out EXCEPT !.cells = Rebinds(r.out, c)]]

\* NotebookProcessor.process_cell(processor, cell), lines 211-216: what the
\* call does and whether the processor was invoked
process_cell(processor, h, cs, c, exc) ==
    IF hasattr_source(h[c]) /\ Invokes(processor)
    THEN Invoked(call(processor, h, cs, c, exc), c)
    ELSE [invoked |-> FALSE, processed |-> FALSE,
          out |-> [heap |-> h, cells |-> cs, returned |-> None,
                   raised |-> NoException, structural |-> FALSE]]

\* lines 226-232: what process_cell did to cell c, and the handler
Handled(c, r) ==
    /\ trace' = Append(trace,
            Event("cell", p, c, it, hasattr_source(heap[c]), r.invoked,
                  r.processed, heap[c].cell_type, r.out.returned, r.out.raised))
    /\ heap' = r.out.heap
    /\ cells' = r.out.cells
    /\ structural' = (structural \/ r.out.structural)
    /\ self' = IF "self" \in DOMAIN r.out THEN r.out.self ELSE self
    /\ IF r.out.raised.type # "none" /\ Reraises(r.out.raised)
       THEN /\ pc' = "raised"
            /\ raised' = Contextualize(r.out.raised, path, r.out.heap[c].index_,
                                       processors[p])
            /\ it' = it
       ELSE /\ pc' = "cells"
            /\ raised' = raised
            /\ it' = it + 1

\* process_notebook, lines 225-232: the inner loop takes the next cell of
\* notebook.cells, by position, and process_cell runs under the handler
ProcessCell ==
    /\ pc = "cells"
    /\ it < Len(cells)
    /\ \E exc \in Exceptions :
        Handled(cells[it + 1],
                process_cell(processors[p], heap, cells, cells[it + 1], exc))
    /\ UNCHANGED <<kernel, path, remove_directives, configured, processors, p,
                   loaded, passStart>>
    /\ UNCHANGED <<extractVars, cliVars, rawVars>>

\* a prune on the truth value of the source: the empty string goes too
KeepsTruthy(cell) == cell.source.k = "str" /\ cell.source.s # <<>>

\* lines 235-237: the cells that stay
Keeps(cell) == cell.source.k = "str"

Prune(h, cs) == SelectSeq(cs, LAMBDA c : Keeps(h[c]))

\* lines 235-239 on the pruned list
Pruned(pruned) ==
    /\ cells' = pruned
    /\ heap' = Reindex(heap, pruned)

\* process_notebook, lines 233-239: the loop is over; end(), prune, reindex
EndPass ==
    /\ pc = "cells"
    /\ it >= Len(cells)
    /\ trace' = (IF hasattr_end(processors[p])
                 THEN Append(trace, HookEvent("end", p))
                 ELSE trace) \o <<HookEvent("reindexed", p)>>
    /\ Pruned(Prune(heap, cells))
    /\ p' = p + 1
    /\ pc' = IF p = Len(processors) THEN "done" ELSE "begin"
    /\ UNCHANGED <<kernel, path, remove_directives, configured, processors, it,
                   raised, loaded, passStart, structural, self>>
    /\ UNCHANGED <<extractVars, cliVars, rawVars>>

(***************************************************************************)
(* The runs of the engine                                                  *)
(***************************************************************************)
MaxCells == 3

MaxProcessors == 2

\* "#| process\nx"
Src_process_x == <<"#", "|", " ">> \o T_process \o <<"\n", "x">>

\* "#|process\nx = 1"
Src_process_tight == <<"#", "|">> \o T_process \o <<"\n", "x", " ", "=", " ", "1">>

\* "#| process", a cell that is its directive and nothing else
Src_process_only == <<"#", "|", " ">> \o T_process

\* "#| process\n#| echo: false\nx"
Src_process_echo ==
    <<"#", "|", " ">> \o T_process
        \o <<"\n", "#", "|", " ", "e", "c", "h", "o", ":", " ", "f", "a", "l", "s", "e",
             "\n", "x">>

\* "\nx": a blank line before the code
Src_blank_x == <<"\n", "x">>

\* "%%bash\nls"
Src_magic == <<"%", "%", "b", "a", "s", "h", "\n", "l", "s">>

\* "y = 2"
Src_y == <<"y", " ", "=", " ", "2">>

\* "#| process\n#|opt: 1\ndef f(): pass\n"
Src_process_opt ==
    <<"#", "|", " ", "p", "r", "o", "c", "e", "s", "s", "\n", "#", "|",
      "o", "p", "t", ":", " ", "1", "\n", "d", "e", "f", " ", "f", "(",
      ")", ":", " ", "p", "a", "s", "s", "\n">>

\* "#|a:##|a:|a:\nx": a quarto line with a second and a third prefix in it
Src_nested_prefix ==
    <<"#", "|", "a", ":", "#", "#", "|", "a", ":", "|", "a", ":", "\n", "x">>

\* "%%bash": a cell that is its magic line and nothing else
Src_magic_only == <<"%", "%", "b", "a", "s", "h">>

\* "%%bash\necho hi\n"
Src_magic_echo ==
    <<"%", "%", "b", "a", "s", "h", "\n", "e", "c", "h", "o", " ", "h",
      "i", "\n">>

\* the cells a notebook of the engine's runs is made of
EngineCells ==
    {[cell_type |-> "code", source |-> Str(Src_process_x)],
     [cell_type |-> "code", source |-> Str(Src_y)],
     [cell_type |-> "code", source |-> Str(<<>>)],
     [cell_type |-> "markdown", source |-> Str(Src_process_x)]}

\* the cells a notebook of the example's runs is made of
ExampleCells ==
    {[cell_type |-> "code", source |-> Str(Src_process_x)],
     [cell_type |-> "code", source |-> Str(Src_process_tight)],
     [cell_type |-> "code", source |-> Str(Src_y)],
     [cell_type |-> "code", source |-> Str(Src_process_only)],
     [cell_type |-> "code", source |-> Str(Src_process_echo)],
     [cell_type |-> "code", source |-> Str(Src_blank_x)],
     [cell_type |-> "code", source |-> Str(Src_magic)],
     [cell_type |-> "markdown", source |-> Str(Src_process_x)]}

\* dict2notebook: one NotebookCell for each cell of the file, index_ its position
Notebooks(from) ==
    UNION {{[i \in 1..n |-> NotebookCell(i - 1, f[i].cell_type, f[i].source)] :
                f \in [1..n -> from]} : n \in 1..MaxCells}

EngineProcessors ==
    {"BasicProcessor", "ClearProcessor", "DeleteNextProcessor", "RaiseProcessor",
     "NoopProcessor", "AppendProcessor", "mark", "mark_"}

ProcessorLists(kinds) ==
    UNION {{[i \in 1..n |-> Configured(f[i])] : f \in [1..n -> kinds]} :
                n \in 1..MaxProcessors}

ExtractIdle ==
    /\ xlang = None
    /\ xcell = [cell_type |-> "code", source |-> Absent]
    /\ xrm = TRUE
    /\ xout = [raised |-> "none", source |-> Absent, directives_ |-> <<>>]
    /\ xpc = "idle"
    /\ xpart = [raised |-> "none", directives |-> <<>>, code |-> <<>>]
    /\ xfix = [raised |-> "none", line |-> <<>>, once |-> <<>>, twice |-> <<>>]

RawIdle ==
    /\ rcontent = <<>>
    /\ rout = [once |-> <<>>, twice |-> <<>>]
    /\ rpc = "idle"

CliIdle ==
    /\ config = [imports |-> <<>>, notebook_processors |-> <<>>, qmd_processors |-> <<>>]
    /\ cpc = "idle"
    /\ todo = 0
    /\ worked = 0
    /\ written = <<>>
    /\ craised = [type |-> "none", listed |-> <<>>]

EngineStart ==
    /\ cells = [i \in 1..Len(heap) |-> i]
    /\ loaded = heap
    /\ processors = <<>>
    /\ pc = "new"
    /\ p = 1
    /\ it = 0
    /\ raised = NoException
    /\ trace = <<>>
    /\ passStart = <<>>
    /\ structural = FALSE
    /\ self = Reset(0, FALSE)

\* a notebook, read or built, and a list of processors for it
Init ==
    /\ heap \in Notebooks(EngineCells)
    /\ kernel \in {None, "rust"}
    /\ path = "docs/test.ipynb"
    /\ remove_directives = TRUE
    /\ configured \in ProcessorLists(EngineProcessors)
    /\ EngineStart
    /\ ExtractIdle
    /\ CliIdle
    /\ RawIdle

Next == NotebookProcessorInit \/ Begin \/ ProcessCell \/ EndPass

Spec == Init /\ [][Next]_vars

\* the notebooks of tests/test_process.py TestProcess and their like, with
\* the processor of the test or the one of processors/example.py
InitExample ==
    /\ heap \in Notebooks(ExampleCells)
    /\ kernel \in {None, "python"}
    /\ path = None
    /\ remove_directives \in BOOLEAN
    /\ configured \in {<<Configured("BasicProcessor")>>, <<Configured("TestBasicProcessor")>>}
    /\ EngineStart
    /\ ExtractIdle
    /\ CliIdle
    /\ RawIdle

SpecExample == InitExample /\ [][Next]_vars

(***************************************************************************)
(* The runs of CodeNoteProcessor                                           *)
(***************************************************************************)
MaxNoteCells == 4

\* "add(a, b)"
Src_add ==
    <<"a", "d", "d", "(", "a", ",", " ", "b", ")">>

\* "#| explain add 0 (\nsum": the explanation of `add(`
Src_explain ==
    <<"#", "|", " ", "e", "x", "p", "l", "a", "i", "n", " ", "a", "d", "d",
      " ", "0", " ", "(", "\n", "s", "u", "m">>

\* "text"
Src_text == <<"t", "e", "x", "t">>

\* the cells a notebook of these runs is made of
NoteCells ==
    {[cell_type |-> "code", source |-> Str(Src_add)],
     [cell_type |-> "code", source |-> Str(Src_y)],
     [cell_type |-> "markdown", source |-> Str(Src_explain)],
     [cell_type |-> "markdown", source |-> Str(Src_text)]}

NoteNotebooks ==
    UNION {{[i \in 1..n |-> NotebookCell(i - 1, f[i].cell_type, f[i].source)] :
                f \in [1..n -> NoteCells]} : n \in 1..MaxNoteCells}

\* the notebooks of tests/test_process.py TestCodeNotes and their like
InitNotes ==
    /\ heap \in NoteNotebooks
    /\ kernel = None
    /\ path = None
    /\ remove_directives \in BOOLEAN
    /\ configured = <<Configured("CodeNoteProcessor")>>
    /\ EngineStart
    /\ ExtractIdle
    /\ CliIdle
    /\ RawIdle

SpecNotes == InitNotes /\ [][Next]_vars

(***************************************************************************)
(* Runs with plugins that add cells, fail, or return a cell they made      *)
(***************************************************************************)
PluginProcessors ==
    {"AppendRaiseProcessor", "SwapProcessor", "BasicProcessor", "ClearProcessor"}

InitPlugins ==
    /\ heap \in Notebooks(EngineCells)
    /\ kernel = None
    /\ path = "docs/test.ipynb"
    /\ remove_directives = TRUE
    /\ configured \in ProcessorLists(PluginProcessors)
    /\ EngineStart
    /\ ExtractIdle
    /\ CliIdle
    /\ RawIdle

SpecPlugins == InitPlugins /\ [][Next]_vars

(***************************************************************************)
(* One list of processors handed to two NotebookProcessors                 *)
(***************************************************************************)
ReuseCells ==
    {[cell_type |-> "code", source |-> Str(Src_process_x)],
     [cell_type |-> "code", source |-> Str(Src_y)],
     [cell_type |-> "markdown", source |-> Str(Src_process_x)]}

ReuseProcessors == {"BasicProcessor", "TestBasicProcessor", "mark"}

\* processors = [...]; NotebookProcessor("docs/test.ipynb", processors=processors)
InitReuse ==
    /\ heap \in Notebooks(ReuseCells)
    /\ kernel = None
    /\ path = "docs/test.ipynb"
    /\ remove_directives = TRUE
    /\ configured \in ProcessorLists(ReuseProcessors)
    /\ EngineStart
    /\ ExtractIdle
    /\ CliIdle
    /\ RawIdle

\* NotebookProcessor("docs/other.ipynb", processors=processors): the caller
\* hands the same list object to a NotebookProcessor for another notebook
Again ==
    /\ pc = "done"
    /\ path = "docs/test.ipynb"
    /\ path' = "docs/other.ipynb"
    /\ heap' \in Notebooks(ReuseCells)
    /\ cells' = [i \in 1..Len(heap') |-> i]
    /\ loaded' = heap'
    /\ processors' = <<>>
    /\ pc' = "new"
    /\ p' = 1
    /\ it' = 0
    /\ raised' = NoException
    /\ trace' = <<>>
    /\ passStart' = <<>>
    /\ structural' = FALSE
    /\ self' = Reset(0, FALSE)
    /\ UNCHANGED <<kernel, remove_directives, configured>>
    /\ UNCHANGED <<extractVars, cliVars, rawVars>>

NextReuse == Next \/ Again

SpecReuse == InitReuse /\ [][NextReuse]_vars

(***************************************************************************)
(* One call of extract_directives                                          *)
(***************************************************************************)
EngineIdle ==
    /\ heap = <<>>
    /\ cells = <<>>
    /\ loaded = <<>>
    /\ kernel = None
    /\ path = None
    /\ remove_directives = TRUE
    /\ configured = <<>>
    /\ processors = <<>>
    /\ pc = "idle"
    /\ p = 1
    /\ it = 0
    /\ raised = NoException
    /\ trace = <<>>
    /\ passStart = <<>>
    /\ structural = FALSE
    /\ self = Reset(0, FALSE)

\* " | x\ny": a line of white space, a pipe and text, then code
Src_pipe ==
    <<" ", "|", " ", "x", "\n", "y">>

\* "#| process\nx\n#| opt: 1": a line of directive syntax after the code began
Src_late ==
    <<"#", "|", " ", "p", "r", "o", "c", "e", "s", "s", "\n", "x", "\n",
      "#", "|", " ", "o", "p", "t", ":", " ", "1">>

\* "#| name arg\nx"
Src_hash_name ==
    <<"#", "|", " ", "n", "a", "m", "e", " ", "a", "r", "g", "\n", "x">>

\* "//| name arg\nx"
Src_slash_name ==
    <<"/", "/", "|", " ", "n", "a", "m", "e", " ", "a", "r", "g", "\n", "x">>

\* "--| name arg\nx"
Src_dash_name ==
    <<"-", "-", "|", " ", "n", "a", "m", "e", " ", "a", "r", "g", "\n", "x">>

\* "%| name arg\nx"
Src_percent_name ==
    <<"%", "|", " ", "n", "a", "m", "e", " ", "a", "r", "g", "\n", "x">>

\* "#|\nx": a bare marker and pipe, then code
Src_bare ==
    <<"#", "|", "\n", "x">>

\* "#  |  opt  :1\nx": white space around the marker, the pipe and the colon
Src_spaced ==
    <<"#", " ", " ", "|", " ", " ", "o", "p", "t", " ", " ", ":", "1",
      "\n", "x">>

\* languages of every kind of marker, one that is not in the map, and the
\* default of the language parameter
ExtractLanguages ==
    {"python", "scala", "sql", "matlab", "c", "sas", "stata", "rust", None}

ExtractSources ==
    {Src_process_x, Src_process_tight, Src_process_only, Src_process_echo,
     Src_blank_x, Src_magic, Src_y, <<>>, Src_process_opt, Src_nested_prefix,
     Src_magic_only, Src_magic_echo, Src_pipe, Src_late, Src_hash_name,
     Src_slash_name, Src_dash_name, Src_percent_name, Src_bare, Src_spaced}

InitExtract ==
    /\ xlang \in ExtractLanguages
    /\ xcell \in {make_cell(text, "code") : text \in ExtractSources}
    /\ xrm \in BOOLEAN
    /\ xout = [raised |-> "none", source |-> Absent, directives_ |-> <<>>]
    /\ xpc = "start"
    /\ xpart = [raised |-> "none", directives |-> <<>>, code |-> <<>>]
    /\ xfix = [raised |-> "none", line |-> <<>>, once |-> <<>>, twice |-> <<>>]
    /\ EngineIdle
    /\ CliIdle
    /\ RawIdle

\* extract_directives(cell, remove_directives=xrm, language=xlang)
Extract ==
    /\ xpc = "start"
    /\ xout' = extract_directives(xcell, xrm, xlang)
    /\ xpc' = "done"
    /\ UNCHANGED <<xlang, xcell, xrm, xpart, xfix>>
    /\ UNCHANGED <<engineVars, cliVars, rawVars>>

\* partition_cell(cell, language=xlang)
PartitionCell ==
    /\ xpc = "start"
    /\ xpart' = partition_cell(xcell, xlang)
    /\ xpc' = "partitioned"
    /\ UNCHANGED <<xlang, xcell, xrm, xout, xfix>>
    /\ UNCHANGED <<engineVars, cliVars, rawVars>>

\* fix_quarto_directives(once, language) for the once that
\* fix_quarto_directives(line, language) returned
FixedTwice(re, line, once) ==
    [raised |-> "none", line |-> line, once |-> once, twice |-> FixQuarto(re, once)]

\* fix_quarto_directives(line, language) with the pattern of the language,
\* or the exception of quarto_regex(language)
FixTwice(pattern, line) ==
    IF pattern.raised # "none"
    THEN [raised |-> pattern.raised, line |-> line, once |-> <<>>, twice |-> <<>>]
    ELSE FixedTwice(pattern.re, line, FixQuarto(pattern.re, line))

\* fix_quarto_directives on a line of the cell, then on what it returned
FixLine ==
    /\ xpc = "start"
    /\ xcell.source.s # <<>>
    /\ \E k \in 1..Len(splitlines(xcell.source.s)) :
            xfix' = FixTwice(format_directive(xlang), splitlines(xcell.source.s)[k])
    /\ xpc' = "fixed"
    /\ UNCHANGED <<xlang, xcell, xrm, xout, xpart>>
    /\ UNCHANGED <<engineVars, cliVars, rawVars>>

NextExtract == Extract \/ PartitionCell \/ FixLine

SpecExtract == InitExtract /\ [][NextExtract]_vars

(***************************************************************************)
(* processors/semantic_versioning.py: a raw-content processor              *)
(***************************************************************************)
MaxContent == 6

\* the two injected lines, shortened to two characters each: the script tag
\* that loads jQuery, and the script block
REFERENCE_JQUERY == <<"j", "q">>
REFERENCE_JAVASCRIPT == <<"j", "s">>

\* sep.join(parts)
RECURSIVE Join(_, _)
Join(parts, sep) ==
    IF parts = <<>> THEN <<>>
    ELSE IF Len(parts) = 1 THEN parts[1]
    ELSE parts[1] \o sep \o Join(Tail(parts), sep)

\* `sub in s` of two strings
Contains(s, sub) ==
    \E i \in 0..(Len(s) - Len(sub)) : SubSeq(s, i + 1, i + Len(sub)) = sub

\* a faulty variant: the block is injected whatever the content holds
InjectedAlways(replacement_str, content) ==
    Join(<<REFERENCE_JQUERY, REFERENCE_JAVASCRIPT, content>>, <<"\n">>)

\* SemanticVersioningProcessor.process, lines 131-133
Injected(replacement_str, content) ==
    IF ~Contains(content, replacement_str)
    THEN Join(<<REFERENCE_JQUERY, REFERENCE_JAVASCRIPT, content>>, <<"\n">>)
    ELSE content

SemanticVersioningProcessor_process(content) ==
    Injected(Join(<<REFERENCE_JQUERY, REFERENCE_JAVASCRIPT>>, <<"\n">>), content)

\* the texts a processor is given: every text of at most MaxContent
\* characters over the characters of the injected block
ContentChars == {"j", "q", "s", "\n"}

Contents == UNION {[1..n -> ContentChars] : n \in 0..MaxContent}

InitRaw ==
    /\ rcontent \in Contents
    /\ rout = [once |-> <<>>, twice |-> <<>>]
    /\ rpc = "start"
    /\ EngineIdle
    /\ ExtractIdle
    /\ CliIdle

AppliedAgain(once) ==
    [once |-> once, twice |-> SemanticVersioningProcessor_process(once)]

\* SemanticVersioningProcessor(content).process(), and the same processor
\* on the text it returned
RawProcess ==
    /\ rpc = "start"
    /\ rout' = AppliedAgain(SemanticVersioningProcessor_process(rcontent))
    /\ rpc' = "done"
    /\ UNCHANGED rcontent
    /\ UNCHANGED <<engineVars, extractVars, cliVars>>

NextRaw == RawProcess

SpecRaw == InitRaw /\ [][NextRaw]_vars

(***************************************************************************)
(* cli.py: main() over a folder of notebooks                               *)
(***************************************************************************)
MaxReferences == 2
MaxNotebooks == 2

\* "module:Class" references of a configuration file: one that resolves,
\* two whose module has no such attribute, one whose module does not exist
R_good == "nbquarto.processors.example:BasicProcessor"
R_typo == "nbquarto.processors.example:BasicProcesor"
R_gone == "nbquarto.processors.example:Gone"
R_nomodule == "nbquarto.nothing:Processor"
References == {R_good, R_typo, R_gone, R_nomodule}

\* references to raw-content processors: the one of the package, and a
\* plugin written to the contract of RawPostProcessor
R_semver == "nbquarto.processors.semantic_versioning:SemanticVersioningProcessor"
R_header == "plugins:HeaderProcessor"
QmdReferences == {R_semver, R_header, R_gone, R_nomodule}

\* what getattr(module, class_name) of a reference gives
R_class == "<class BasicProcessor>"

ClassOf(ref) ==
    CASE ref = R_semver -> "<class SemanticVersioningProcessor>"
      [] ref = R_header -> "<class HeaderProcessor>"
      [] OTHER -> R_class

Classes == {ClassOf(ref) : ref \in {R_good, R_semver, R_header}}

\* __import__(module_location, fromlist=[class_name]) does not raise
Importable(ref) == ref # R_nomodule

\* getattr(module, class_name) does not raise
HasAttribute(ref) == ref \in {R_good, R_semver, R_header}

NoError == [type |-> "none", listed |-> <<>>]

\* get_configuration, lines 27-44, for the imports of the file: a module
\* that is not there ends the loop with its ModuleNotFoundError; the missing
\* attributes are collected and raised as one ImportError
Verified(imports, problematic) ==
    IF \E i \in 1..Len(imports) : ~Importable(imports[i])
    THEN [type |-> "ModuleNotFoundError", listed |-> <<R_nomodule>>]
    ELSE IF problematic # <<>>
    THEN [type |-> "ImportError", listed |-> problematic]
    ELSE NoError

get_configuration(cfg) ==
    Verified(cfg.imports, SelectSeq(cfg.imports, LAMBDA ref : ~HasAttribute(ref)))

\* the loops of lines 69-72 and 141-145: the references are resolved one by
\* one, and the first that fails raises; in process_qmd an entry that is no
\* longer a str is left as it is
Resolvable(ref) == ref \in Classes \/ (Importable(ref) /\ HasAttribute(ref))

Class(entry) == IF entry \in Classes THEN entry ELSE ClassOf(entry)

Resolved(list) ==
    IF \A i \in 1..Len(list) : Resolvable(list[i])
    THEN [raised |-> NoError, list |-> [i \in 1..Len(list) |-> Class(list[i])]]
    ELSE LET i == CHOOSE i \in 1..Len(list) :
                    /\ ~Resolvable(list[i])
                    /\ \A j \in 1..(i - 1) : Resolvable(list[j])
         IN  [raised |-> [type |-> IF Importable(list[i]) THEN "AttributeError"
                                   ELSE "ModuleNotFoundError",
                          listed |-> <<list[i]>>],
              list |-> [j \in 1..Len(list) |->
                            IF j < i THEN Class(list[j]) ELSE list[j]]]

ReferenceLists ==
    UNION {[1..n -> References] : n \in 0..MaxReferences}

QmdReferenceLists ==
    UNION {[1..n -> QmdReferences] : n \in 0..MaxReferences}

InitCli ==
    /\ config \in [imports : ReferenceLists, notebook_processors : ReferenceLists,
                   qmd_processors : QmdReferenceLists]
    /\ cpc = "notebooks"
    /\ todo \in 1..MaxNotebooks
    /\ worked = 0
    /\ written = <<>>
    /\ craised = NoError
    /\ EngineIdle
    /\ ExtractIdle
    /\ RawIdle

\* the markup a notebook is rendered to, lines 96-131: a text free of
\* the injected block, or one that holds it already
Documents ==
    {<<"s">>,
     Join(<<REFERENCE_JQUERY, REFERENCE_JAVASCRIPT, <<"s">>>>, <<"\n">>)}

\* a .qmd file that process_notebook wrote: whether it lies under the
\* output folder, the text rendered from the notebook, the text it holds,
\* and as history the classes whose process() ran on it, in order
Rendered(inside, md_source) ==
    [inside |-> inside, rendered |-> md_source, content |-> md_source,
     applied |-> <<>>, post |-> FALSE]

\* cli.process_notebook once the configuration was read and found as
\* `checked`, and the notebook processors resolved as `resolved`: the
\* notebook is processed and its .qmd written to
\*   output_folder / relpath(notebook_location, documentation_source),
\* which lies outside the output folder for a notebook that is not under
\* documentation_source
Converted(checked, resolved, inside, md_source) ==
    IF checked.type # "none" \/ resolved.raised.type # "none"
    THEN /\ craised' = IF checked.type # "none" THEN checked ELSE resolved.raised
         /\ cpc' = "raised"
         /\ UNCHANGED <<todo, worked, written>>
    ELSE /\ worked' = worked + 1
         /\ written' = Append(written, Rendered(inside, md_source))
         /\ todo' = todo - 1
         /\ cpc' = IF todo = 1 THEN "configuration" ELSE "notebooks"
         /\ craised' = craised

\* main, lines 184-189: process_notebook of the next notebook
cli_process_notebook ==
    /\ cpc = "notebooks"
    /\ \E inside \in BOOLEAN, md_source \in Documents :
            Converted(get_configuration(config), Resolved(config.notebook_processors),
                      inside, md_source)
    /\ UNCHANGED config
    /\ UNCHANGED <<engineVars, extractVars, rawVars>>

\* the .qmd files that Path(doc_path).glob("**/*") of line 198 has still
\* to give
Globbed(files) == {i \in 1..Len(files) : files[i].inside /\ ~files[i].post}

\* main, lines 191-198: the configuration is read again
Reread(checked) ==
    IF checked.type # "none"
    THEN craised' = checked /\ cpc' = "raised"
    ELSE /\ craised' = craised
         /\ cpc' = IF Len(config.qmd_processors) > 0 /\ Globbed(written) # {}
                   THEN "qmd" ELSE "done"

main_get_configuration ==
    /\ cpc = "configuration"
    /\ Reread(get_configuration(config))
    /\ UNCHANGED <<config, todo, worked, written>>
    /\ UNCHANGED <<engineVars, extractVars, rawVars>>

\* "Found a directive!\n"
T_found ==
    <<"F", "o", "u", "n", "d", " ", "a", " ", "d", "i", "r", "e", "c", "t",
      "i", "v", "e", "!", "\n">>

\* processor(qmd_source).process(), lines 152-153
RawProcessed(class, qmd_source) ==
    IF class = "<class SemanticVersioningProcessor>"
    THEN SemanticVersioningProcessor_process(qmd_source)
    ELSE T_found \o qmd_source

\* lines 151-153: the processors from the k-th on, each on the string the
\* one before it returned
RECURSIVE ProcessedFrom(_, _, _)
ProcessedFrom(qmd_processors, k, qmd_source) ==
    IF k > Len(qmd_processors) THEN qmd_source
    ELSE ProcessedFrom(qmd_processors, k + 1,
                       RawProcessed(qmd_processors[k], qmd_source))

\* lines 147-156 for file i: read, processed, written
Rewritten_qmd(file, qmd_processors, qmd_source) ==
    [file EXCEPT !.content = qmd_source, !.applied = file.applied \o qmd_processors,
                 !.post = TRUE]

\* process_qmd of file i with the processors resolved as `resolved`: the
\* list of the configuration is changed in place, the file rewritten
Postprocessed(i, resolved) ==
    /\ config' = [config EXCEPT !.qmd_processors = resolved.list]
    /\ IF resolved.raised.type # "none"
       THEN /\ craised' = resolved.raised
            /\ cpc' = "raised"
            /\ written' = written
       ELSE /\ craised' = craised
            /\ written' = [written EXCEPT ![i] =
                    Rewritten_qmd(written[i], resolved.list,
                        ProcessedFrom(resolved.list, 1, written[i].content))]
            /\ cpc' = IF Globbed(written) = {i} THEN "done" ELSE "qmd"

\* main, lines 198-201: process_qmd of the next .qmd file
process_qmd ==
    /\ cpc = "qmd"
    /\ \E i \in Globbed(written) :
            /\ \A j \in Globbed(written) : i <= j
            /\ Postprocessed(i, Resolved(config.qmd_processors))
    /\ UNCHANGED <<todo, worked>>
    /\ UNCHANGED <<engineVars, extractVars, rawVars>>

NextCli == cli_process_notebook \/ main_get_configuration \/ process_qmd

SpecCli == InitCli /\ [][NextCli]_vars

(***************************************************************************)
(* Properties of the example round trip                                    *)
(***************************************************************************)
\* the source the round trip promises for a code cell with lines `lines`:
\* the marker line and the lines after a leading process directive, or the
\* source as it was
C1_Promised(source, lines) ==
    IF lines # <<>> /\ (strip(lines[1]) = <<"#", "|", " ">> \o T_process
                        \/ strip(lines[1]) = <<"#", "|">> \o T_process)
    THEN Str(T_marker \o Concat(Tail(lines)))
    ELSE source

\* C1: with directive removal on and the example processor over code cells,
\* after the run every code cell that began with the line `#| process` or
\* `#|process` has as source the marker line followed by its original source
\* without that line, and every other code cell has its original source.
C1_RoundTrip ==
    (pc = "done" /\ remove_directives) =>
        \A i \in 1..Len(loaded) :
            loaded[i].cell_type = "code" =>
                heap[i].source = C1_Promised(loaded[i].source,
                                             splitlines(loaded[i].source.s))

(***************************************************************************)
(* Properties of the engine                                                *)
(***************************************************************************)
\* a pass has just ended: the last thing done was the reindexing, and the
\* next pass, if there is one, has not begun
PassOver ==
    /\ pc \in {"begin", "done"}
    /\ trace # <<>>
    /\ trace[Len(trace)].e = "reindexed"

\* the cell events of processor k, in order
Visits(k) == SelectSeq(trace, LAMBDA ev : ev.e = "cell" /\ ev.p = k)

\* C2: when a pass cleared the source of some cell (set it to None or
\* deleted it), after the pass the document holds exactly the other cells of
\* the pass, in their order, and their index_ values are 0..n-1 by position.
C2_PruneReindex ==
    (PassOver /\ \E i \in 1..Len(passStart) : heap[passStart[i]].source.k # "str") =>
        /\ cells = SelectSeq(passStart, LAMBDA c : heap[c].source.k = "str")
        /\ \A i \in 1..Len(cells) : heap[cells[i]].index_ = i - 1

\* three cells, the middle one cleared: the outer two are left with 0 and 1
C2_Witness ==
    /\ PassOver
    /\ Len(passStart) = 3
    /\ heap[passStart[2]].source.k = "none"
    /\ cells = <<passStart[1], passStart[3]>>
    /\ heap[passStart[1]].index_ = 0
    /\ heap[passStart[3]].index_ = 1
    /\ loaded[passStart[3]].index_ = 2

\* how many times the event e of processor k is in the history
Count(k, e) == Len(SelectSeq(trace, LAMBDA ev : ev.e = e /\ ev.p = k))

\* the place of an event in a pass
Rank(e) ==
    CASE e = "begin" -> 0
      [] e = "cell" -> 1
      [] e = "end" -> 2
      [] e = "reindexed" -> 3

\* the pass of processor k has begun; it is over
Started(k) == k < p \/ (k = p /\ pc \in {"cells", "raised"})
Ended(k) == k < p

\* C3: the processors run in the configured order, one pass after the
\* other; in a pass begin(), if the processor has it, is called once and
\* before the first per-cell call, end(), if it has it, once and after the
\* last per-cell call, then come prune and reindex, and only after them the
\* begin() of the next processor.
C3_Lifecycle ==
    /\ \A i, j \in 1..Len(trace) :
            i < j => \/ trace[i].p < trace[j].p
                     \/ /\ trace[i].p = trace[j].p
                        /\ Rank(trace[i].e) <= Rank(trace[j].e)
    /\ \A k \in 1..Len(processors) :
            /\ Count(k, "begin") =
                    IF Started(k) /\ hasattr_begin(processors[k]) THEN 1 ELSE 0
            /\ Count(k, "end") =
                    IF Ended(k) /\ hasattr_end(processors[k]) THEN 1 ELSE 0
            /\ Count(k, "reindexed") = IF Ended(k) THEN 1 ELSE 0

\* two processors with both hooks over three cells, run to the end
C3_Witness ==
    /\ pc = "done"
    /\ Len(processors) = 2
    /\ Count(1, "begin") = 1 /\ Count(1, "end") = 1
    /\ Count(2, "begin") = 1 /\ Count(2, "end") = 1
    /\ Len(Visits(1)) = 3 /\ Len(Visits(2)) = 3

\* the visits of a pass took the cells of the pass one by one in document
\* order, and called the processor on those that had a source then, unless
\* the processor is `skipped`
C4_Offered(visits, skipped) ==
    /\ Len(visits) = Len(passStart)
    /\ \A i \in 1..Len(visits) :
            /\ visits[i].cell = passStart[i]
            /\ visits[i].pos = i - 1
            /\ visits[i].invoked = (visits[i].had_source /\ ~skipped)

\* the __name__ of the processor ends in an underscore
C4_Underscore(name) == name[Len(name)] = "_"

\* C4 as stated: in a pass in which no cell is inserted or removed, the
\* processor is called exactly once on every cell that has a source, in
\* document order, whatever directives the cell carries.
C4_EveryProcessor ==
    (PassOver /\ ~structural) => C4_Offered(Visits(p - 1), FALSE)

\* C4: in a pass in which no cell is inserted or removed, a processor whose
\* __name__ does not end in an underscore is called exactly once on every
\* cell that has a source, in document order, whatever directives the cell
\* carries; a function whose name ends in an underscore is never called.
C4_UnlessUnderscore ==
    (PassOver /\ ~structural) =>
        C4_Offered(Visits(p - 1), C4_Underscore(name_of(processors[p - 1])))

\* a pass over three cells: the first is called and deletes the source of
\* the second, which is then passed over; the third carries no directive
\* and is called
C4_Witness ==
    /\ PassOver /\ ~structural
    /\ Len(passStart) = 3
    /\ Len(Visits(p - 1)) = 3
    /\ Visits(p - 1)[1].invoked
    /\ ~Visits(p - 1)[2].had_source /\ ~Visits(p - 1)[2].invoked
    /\ Visits(p - 1)[3].invoked
    /\ heap[passStart[3]].directives_ = <<>>

\* C5: process of a processor class never runs on a cell whose cell_type
\* is not among the cell_types of the class: the markdown-only processor
\* never processes a code cell, and a processor with the default
\* cell_types processes code cells only.
C5_CellTypes ==
    \A i \in 1..Len(trace) :
        (trace[i].e = "cell" /\ trace[i].processed
            /\ processors[trace[i].p].kind \in ProcessorClasses) =>
                /\ trace[i].cell_type \in cell_types(processors[trace[i].p].kind)
                /\ processors[trace[i].p].kind = "NoopProcessor"
                        => trace[i].cell_type = "markdown"
                /\ processors[trace[i].p].kind
                        \in {"BasicProcessor", "ClearProcessor", "RaiseProcessor"}
                        => trace[i].cell_type = "code"

\* the markdown-only processor was called on a code cell and did not
\* process it, and processed a markdown cell; a processor with the default
\* was called on a markdown cell and did not process it, and processed a
\* code cell
C5_Witness ==
    \E i, j, k, l \in 1..Len(trace) :
        /\ processors[trace[i].p].kind = "NoopProcessor"
        /\ trace[i].invoked /\ trace[i].cell_type = "code" /\ ~trace[i].processed
        /\ processors[trace[j].p].kind = "NoopProcessor"
        /\ trace[j].cell_type = "markdown" /\ trace[j].processed
        /\ processors[trace[k].p].kind = "ClearProcessor"
        /\ trace[k].invoked /\ trace[k].cell_type = "markdown" /\ ~trace[k].processed
        /\ processors[trace[l].p].kind = "ClearProcessor"
        /\ trace[l].cell_type = "code" /\ trace[l].processed

\* the cell objects h and g agree on all but index_
SameButIndex(h, g) ==
    /\ Len(h) = Len(g)
    /\ \A c \in 1..Len(h) :
            /\ h[c].source = g[c].source
            /\ h[c].cell_type = g[c].cell_type
            /\ h[c].directives_ = g[c].directives_
            /\ h[c].metadata = g[c].metadata

\* the call recorded by ev was made, returned None, and was a call of a
\* processor that mutates nothing then: the one whose process does nothing,
\* or one that was refused by cell_types or found none of its directives
QuietCall(ev, kind, cell) ==
    /\ ev.e = "cell" /\ ev.invoked /\ ev.returned = None
    /\ kind \in ProcessorClasses
    /\ \/ kind = "NoopProcessor"
       \/ ~ev.processed
       \/ ~has_directives(kind, cell)

\* C6: a per-cell call that returns None and mutates nothing leaves the
\* document and every cell as they were; the prune after the pass removes
\* exactly the cells whose source is None or deleted at that moment (a
\* cell whose source is the empty string stays) and changes no source,
\* cell_type, directives_ or metadata.
C6_Frame ==
    [][/\ (pc = "cells" /\ pc' = "cells" /\ it' = it + 1
            /\ QuietCall(trace'[Len(trace')], processors[p].kind, heap[cells[it + 1]]))
                => (heap' = heap /\ cells' = cells)
       /\ (pc = "cells" /\ p' = p + 1)
                => /\ cells' = SelectSeq(cells, LAMBDA c : heap[c].source.k = "str")
                   /\ SameButIndex(heap, heap')]_vars

\* after a pass: a cell that a call returning None was made on is in the
\* document as it was loaded, a cell with the empty string as source is in
\* it, and a cell of the pass is gone
C6_Witness ==
    /\ PassOver
    /\ \E i \in 1..Len(trace) :
            /\ QuietCall(trace[i], processors[trace[i].p].kind, heap[trace[i].cell])
            /\ \E j \in 1..Len(cells) : cells[j] = trace[i].cell
    /\ \E j \in 1..Len(cells) : heap[cells[j]].source = Str(<<>>)
    /\ \E i \in 1..Len(passStart) : \A j \in 1..Len(cells) : cells[j] # passStart[i]

\* the last entry of the history is a per-cell call that raised
RaisedInCall ==
    /\ trace # <<>>
    /\ trace[Len(trace)].e = "cell"
    /\ trace[Len(trace)].raised.type # "none"

\* the message `now` begins with the path, the index_ of the cell and the
\* module and class of the processor, and goes on with the message `was`
C7_Prefixed(now, was, cell, processor) ==
    /\ now.context = <<[path |-> path, cell |-> cell.index_,
                        processor |-> <<module_of(processor),
                                        class_name_of(processor)>>]>>
    /\ now.text = was.text

\* C7: when a processor raises in a per-cell call, what process_notebook
\* raises is that exception, of the same type, and its message begins with
\* the notebook path, the index_ of the cell and the module and class of
\* the processor, and goes on with the original message.
C7_SameException ==
    RaisedInCall =>
        /\ pc = "raised"
        /\ raised.type = trace[Len(trace)].raised.type
        /\ C7_Prefixed(Message(raised), Message(trace[Len(trace)].raised),
                       heap[trace[Len(trace)].cell],
                       processors[trace[Len(trace)].p])

\* C8: a per-cell call that raised is the last thing the run did: no cell
\* after it, no end() of its processor, no prune, nothing of a later
\* processor; the run has ended with that error and not with success.
C8_Fatal ==
    \A i \in 1..Len(trace) :
        (trace[i].e = "cell" /\ trace[i].raised.type # "none") =>
            /\ i = Len(trace)
            /\ pc = "raised"
            /\ raised.type = trace[i].raised.type

\* the first of two processors raised on the first of three cells: two
\* cells were not visited, the second processor, which has begin() and
\* end(), never ran
C8_Witness ==
    /\ pc = "raised"
    /\ Len(Visits(1)) = 1
    /\ Visits(1)[1].raised.type = "ValueError"
    /\ Len(cells) = 3
    /\ Len(processors) = 2
    /\ processors[2].kind = "NoopProcessor"
    /\ Count(2, "begin") = 0
    /\ Count(1, "reindexed") = 0

(***************************************************************************)
(* Properties of the extractor                                             *)
(***************************************************************************)
\* C10: the lookup of the comment marker of a language that is not in the
\* language map, None among them, gives the default marker `#` and does
\* not raise, and extraction for such a language ends without that error.
C10_DefaultMarker ==
    (xpc = "done" /\ xlang \notin RegisteredLangs) =>
        /\ langs(xlang) = [raised |-> "none", marker |-> StrMarker(<<"#">>)]
        /\ xout.raised # "KeyError"

(***************************************************************************)
(* Properties of the command line                                          *)
(***************************************************************************)
\* the references among the per-cell and the raw-content processors of the
\* configuration that cannot be resolved
Unresolvable ==
    ({config.notebook_processors[i] : i \in 1..Len(config.notebook_processors)}
        \cup {config.qmd_processors[i] : i \in 1..Len(config.qmd_processors)})
        \ ({R_good, R_semver, R_header} \cup Classes)

\* C9: when a configured processor reference, per-cell or raw-content,
\* cannot be resolved, no notebook is processed and no output written, and
\* the run ends with one error that lists all the references that cannot be
\* resolved.
C9_AllAtOnce ==
    Unresolvable # {} =>
        /\ worked = 0
        /\ written = <<>>
        /\ cpc # "done"
        /\ cpc = "raised" =>
                {craised.listed[i] : i \in 1..Len(craised.listed)} = Unresolvable

\* C11: for the python source "#| process\n#|opt: 1\ndef f(): pass\n" the
\* mapping has exactly the keys `process`, with no argument, and `opt`, with
\* the argument `1`; and no key of any mapping ends in the colon of a
\* `name: value` line.
C11_KeyWithoutColon ==
    (xpc = "done" /\ xlang = "python" /\ xout.raised = "none") =>
        /\ xcell.source.s = Src_process_opt =>
                xout.directives_ =
                    <<[directive |-> T_process, args |-> <<>>],
                      [directive |-> <<"o", "p", "t">>, args |-> <<<<"1">>>>]>>
        /\ \A k \in 1..Len(xout.directives_) :
                xout.directives_[k].directive[Len(xout.directives_[k].directive)] # ":"

\* C12: for every source and every language partition_cell returns for,
\* the directive lines followed by the code lines are the lines of the
\* source: none lost, none twice, none out of place.
C12_PartitionConcat ==
    (xpc = "partitioned" /\ xpart.raised = "none") =>
        xpart.directives \o xpart.code = splitlines(xcell.source.s)

\* C15: fix_quarto_directives of what fix_quarto_directives returned is
\* that same text.
C15_FixIdempotent ==
    (xpc = "fixed" /\ xfix.raised = "none") => xfix.twice = xfix.once

\* the elements of a are in b, in that order
RECURSIVE IsSubseq(_, _)
IsSubseq(a, b) ==
    IF a = <<>> THEN TRUE
    ELSE IF b = <<>> THEN FALSE
    ELSE IF Head(a) = Head(b) THEN IsSubseq(Tail(a), Tail(b))
    ELSE IsSubseq(a, Tail(b))

\* the magic lines of the directive block are lines of the source `now`, in
\* their order, and the line that ended the block is not a magic line
MagicKept(block, lines, now) ==
    /\ IsSubseq(SelectSeq(block, cell_magic), now)
    /\ Len(block) < Len(lines) => ~cell_magic(lines[Len(block) + 1])

\* C13: with remove_directives on, the cell-magic lines of the directive
\* block are lines of the rewritten source, verbatim and in their order, and
\* the scan of the directive block never stops at a magic line.
C13_MagicKept ==
    (xpc = "done" /\ xrm /\ xout.raised \in {"none", "TypeError"}
            /\ xcell.source.s # <<>>) =>
        MagicKept(partition_cell(xcell, xlang).directives,
                  splitlines(xcell.source.s), splitlines(xout.source.s))

\* C14: a magic line of the directive block gives no entry of the mapping:
\* the mapping has no more entries than the block has lines that are not
\* magic lines, and it is empty for the python source "%%bash\necho hi\n".
C14_NoMagicEntry ==
    (xpc = "done" /\ xout.raised = "none" /\ xcell.source.s # <<>>) =>
        /\ Len(xout.directives_) <=
                Len(SelectSeq(partition_cell(xcell, xlang).directives,
                              LAMBDA line : ~cell_magic(line)))
        /\ (xlang = "python" /\ xcell.source.s = Src_magic_echo) =>
                xout.directives_ = <<>>

\* the text holds the two injected lines, one straight after the other
HasBlock(text) ==
    \E i \in 1..Len(text) :
        /\ i + 4 <= Len(text)
        /\ <<text[i], text[i + 1]>> = REFERENCE_JQUERY
        /\ text[i + 2] = "\n"
        /\ <<text[i + 3], text[i + 4]>> = REFERENCE_JAVASCRIPT

\* C16: SemanticVersioningProcessor.process returns the jQuery reference,
\* the script block and the content, joined by newlines, when the content
\* does not hold the injected block, and the content itself when it does;
\* the processor applied to its own result returns that result.
C16_InjectOnce ==
    rpc = "done" =>
        /\ ~HasBlock(rcontent) =>
                rout.once = REFERENCE_JQUERY \o <<"\n">> \o REFERENCE_JAVASCRIPT
                                \o <<"\n">> \o rcontent
        /\ HasBlock(rcontent) => rout.once = rcontent
        /\ rout.twice = rout.once

\* both cases happened: a text with the block further down than its start
\* came back as it was
C16_Witness ==
    /\ rpc = "done"
    /\ HasBlock(rcontent)
    /\ rcontent[1] = "\n"
    /\ rout.once = rcontent
    /\ rout.twice = rcontent

\* a text without the block got it, once
C16_WitnessInjected ==
    /\ rpc = "done"
    /\ ~HasBlock(rcontent)
    /\ Len(rcontent) = MaxContent
    /\ Len(rout.twice) = MaxContent + 6

\* the cell of the notebook as it was loaded is an explanation: a markdown
\* cell whose first line is the explain directive
IsExplanation(cell) ==
    cell.cell_type = "markdown" /\ cell.source.s = Src_explain

\* the code cell k of the loaded notebook and the explanation after it
\* stand in the notebook as the group of six cells, the cells before and
\* after them in their order
GroupAt(k) ==
    /\ Len(cells) = Len(loaded) + 4
    /\ \A i \in 1..(k - 1) : cells[i] = i
    /\ \A i \in (k + 2)..Len(loaded) : cells[i + 4] = i
    /\ heap[cells[k]].source.s = T_tabset
    /\ cells[k + 1] = k
    /\ heap[cells[k + 2]].source.s = T_second_tab
    /\ cells[k + 3] = k
    /\ heap[cells[k + 4]].source.s =
            T_fence \o <<"a", "d", "d", "(">> \o T_styled \o <<"s", "u", "m", "\n">>
                \o T_close
    /\ heap[cells[k + 5]].source.s = T_close
    /\ \A i \in k..(k + 5) : i # k + 1 /\ i # k + 3 => heap[cells[i]].cell_type = "markdown"

ChainOf(list, md_source) ==
    IF Len(list) = 0 THEN md_source
    ELSE IF Len(list) = 1 THEN RawProcessed(Class(list[1]), md_source)
    ELSE RawProcessed(Class(list[2]), RawProcessed(Class(list[1]), md_source))

\* C18: no raw-content processor runs before every notebook was processed
\* and rendered; and when main() is through, with raw-content processors
\* that all resolve, on each rendered document each
\* configured raw-content processor ran exactly once, in the configured
\* order, each on the string the one before it returned, and the document
\* holds the last string returned.
C18_AfterAndOnce ==
    /\ \A i \in 1..Len(written) : written[i].applied # <<>> => todo = 0
    /\ (/\ cpc = "done"
        /\ \A k \in 1..Len(config.qmd_processors) :
                Resolvable(config.qmd_processors[k])) =>
            \A i \in 1..Len(written) :
                /\ written[i].applied =
                        [k \in 1..Len(config.qmd_processors) |->
                            Class(config.qmd_processors[k])]
                /\ written[i].content =
                        ChainOf(config.qmd_processors, written[i].rendered)

\* every cell of the start of the pass that is still in the document was
\* taken by the inner loop exactly once
VisitedOnce(visits) ==
    \A i \in 1..Len(passStart) :
        (\E j \in 1..Len(cells) : cells[j] = passStart[i]) =>
            Cardinality({n \in 1..Len(visits) : visits[n].cell = passStart[i]}) = 1

FailingPosition == it

\* the index the wrapped message of the raised exception names
ReportedIndex == raised.args[1].context[1].cell

Wrapped ==
    /\ pc = "raised"
    /\ raised.args # <<>>
    /\ raised.args[1].context # <<>>

\* C21: the cell index reported in a wrapped processing error is the position
\* the failing cell has in notebook.cells at the moment of the failure, also
\* when the processor added or removed cells earlier in the same pass
C21_ReportedIsPosition ==
    Wrapped =>
        /\ cells[FailingPosition + 1] = trace[Len(trace)].cell
        /\ ReportedIndex = FailingPosition

(***************************************************************************)
(* C30: what a processor returns                                           *)
(***************************************************************************)
\* the step is one call of process_cell that returned a value
ReturnedIn(values) ==
    /\ Len(trace') = Len(trace) + 1
    /\ trace'[Len(trace')].e = "cell"
    /\ trace'[Len(trace')].returned \in values

\* every cell object there was before the step is as it was
ObjectsKept == \A c \in DOMAIN heap : heap'[c] = heap[c]

\* C30: the value a processor returns for a cell never changes the sequence
\* of cells of the notebook; a returned cell the processor made does not take the
\* place of the visited cell, whose object stays as it was
C30_ReturnIsDropped ==
    [][/\ ReturnedIn({"cell", "other"}) => cells' = cells
       /\ ReturnedIn({"other"}) => ObjectsKept]_vars

\* a processor has just returned a cell it made, and the visited cell is where it was
C30_Witness ==
    /\ trace # <<>>
    /\ trace[Len(trace)].returned = "other"
    /\ cells[trace[Len(trace)].pos + 1] = trace[Len(trace)].cell
    /\ Len(heap) > Len(loaded)

(***************************************************************************)
(* C29: cells without a source                                             *)
(***************************************************************************)
\* the step is one call of process_cell in which the processor was invoked
InvokedStep ==
    /\ Len(trace') = Len(trace) + 1
    /\ trace'[Len(trace')].e = "cell"
    /\ trace'[Len(trace')].invoked

\* the cell objects standing in a list of cells
Standing(cs) == {cs[i] : i \in DOMAIN cs}

\* C29: a processor is never invoked on a cell that has no source field; a
\* cell whose source is deleted or None when a pass ends is not in the
\* notebook after it, and no call of a pass puts back a cell object that was
\* not in the notebook, so no later processor is invoked on it
C29_NoSourceNoCall ==
    [][/\ InvokedStep => heap[cells[it + 1]].source.k # "absent"
       /\ (p' = p + 1) =>
            \A c \in Standing(cells') : heap[c].source.k = "str"
       /\ (pc = "cells" /\ p' = p) =>
            \A c \in Standing(cells') : c \in Standing(cells) \/ c > Len(heap)]_vars

\* two passes are over: in the first a cell without a source field was
\* skipped, and it is not among the cells the second pass visited
C29_Witness ==
    /\ pc = "done"
    /\ p = 3
    /\ \E i \in DOMAIN trace :
          /\ trace[i].e = "cell" /\ trace[i].p = 1
          /\ ~trace[i].had_source /\ ~trace[i].invoked
          /\ \A j \in DOMAIN trace :
                (trace[j].e = "cell" /\ trace[j].p = 2) => trace[j].cell # trace[i].cell
    /\ \E j \in DOMAIN trace :
          trace[j].e = "cell" /\ trace[j].p = 2 /\ trace[j].invoked

(***************************************************************************)
(* C27: the notebook a processor instance is bound to                      *)
(***************************************************************************)
\* C27: every processor instance that a NotebookProcessor runs has its
\* notebook bound to the notebook of that NotebookProcessor, also when the
\* list of processors was handed to another NotebookProcessor before
C27_BoundToOwnNotebook ==
    (pc = "cells" /\ processors[p].kind \in ProcessorClasses) =>
        processors[p].notebook = read_notebook(path)

(***************************************************************************)
(* C22: where the directive block ends                                     *)
(***************************************************************************)
\* what a comment of the language starts with: the marker, or the opening
\* one of a pair
Opening(language) ==
    CASE language \in BlockLangs -> <<"/", "*">>
      [] language = "sas" -> <<"*">>
      [] OTHER -> LangEntry(language).text

\* the line is, after leading white space, the opening of a comment, then
\* white space if any, then a pipe
StartsDirective(t, opening) ==
    /\ Len(t) > Len(opening)
    /\ SubSeq(t, 1, Len(opening)) = opening
    /\ \E j \in (Len(opening) + 1)..Len(t) :
            /\ t[j] = "|"
            /\ \A k \in (Len(opening) + 1)..(j - 1) : IsSpace(t[k])

IsDirectiveLine(language, line) == StartsDirective(lstrip(line), Opening(language))

IsBlankLine(line) == \A k \in 1..Len(line) : IsSpace(line[k])

\* the positions of the lines that are not blank, not a directive line and
\* not a magic line
CodeStarts(language, lines) ==
    {k \in 1..Len(lines) :
        /\ ~IsBlankLine(lines[k])
        /\ ~IsDirectiveLine(language, lines[k])
        /\ ~cell_magic(lines[k])}

Least(S, otherwise) == IF S = {} THEN otherwise ELSE CHOOSE k \in S : \A j \in S : k <= j

\* the block is the lines before the boundary k, and the lines from k on are code
SplitAt(lines, k, part) ==
    /\ part.directives = SubSeq(lines, 1, k - 1)
    /\ k <= Len(lines) => part.code = SubSeq(lines, k, Len(lines))

SplitAtFirstCode(language, lines, part) ==
    SplitAt(lines, Least(CodeStarts(language, lines), Len(lines) + 1), part)

\* C22: the directive block that partition_cell returns is the lines before
\* the first line that is not blank, not a directive line and not a magic
\* line; the lines from that line on are the code, also when one of them
\* has directive syntax, and such a line gives no entry of the mapping
C22_BlockIsPrefix ==
    /\ (xpc = "partitioned" /\ xpart.raised = "none" /\ xcell.source.s # <<>>) =>
            SplitAtFirstCode(xlang, splitlines(xcell.source.s), xpart)
    /\ (xpc = "done" /\ xout.raised = "none" /\ xlang = "python"
            /\ xcell.source.s = Src_late) =>
            xout.directives_ = <<[directive |-> T_process, args |-> <<>>]>>

(***************************************************************************)
(* C23: a line of the block without tokens                                 *)
(***************************************************************************)
\* C23: a line of the directive block that yields no tokens, a blank line or
\* a bare marker and pipe, causes no error and gives no entry: extraction
\* of "\nx" and of "#|\nx" returns, with an empty mapping
C23_NoTokensNoError ==
    (xpc = "done" /\ xlang = "python") =>
        /\ xout.raised # "TypeError"
        /\ xcell.source.s \in {Src_blank_x, Src_bare} =>
                (xout.raised = "none" /\ xout.directives_ = <<>>)

(***************************************************************************)
(* C24: the rewritten source                                               *)
(***************************************************************************)
\* the lines before the boundary k that match the quarto pattern or are
\* magic lines, each normalized, and then the lines from k on
KeptThenCode(re, lines, k) ==
    Concat([i \in 1..(k - 1) |->
                IF MatchQuartoAt(re, lines[i], 0) >= 0 \/ cell_magic(lines[i])
                THEN FixQuarto(re, lines[i])
                ELSE <<>>])
        \o Concat(SubSeq(lines, k, Len(lines)))

RewrittenAtFirstCode(language, re, lines) ==
    KeptThenCode(re, lines, Least(CodeStarts(language, lines), Len(lines) + 1))

\* C24: with remove_directives on, the source becomes the normalized form of
\* each line of the directive block that matches the `name:` pattern or is
\* a magic line, in order, and then the code lines as they were; no other
\* line of the block is in it. With remove_directives off the source stays.
C24_KeptLinesThenCode ==
    (xpc = "done" /\ xout.raised = "none" /\ xcell.source.s # <<>>) =>
        xout.source =
            IF xrm
            THEN Str(RewrittenAtFirstCode(xlang, format_directive(xlang).re,
                                          splitlines(xcell.source.s)))
            ELSE xcell.source

(***************************************************************************)
(* C26: the normalized line                                                *)
(***************************************************************************)
\* the text starts with the marker, a pipe and exactly one space
OneSpaceAfterPipe(t, opening) ==
    /\ Len(t) >= Len(opening) + 2
    /\ SubSeq(t, 1, Len(opening) + 2) = opening \o <<"|", " ">>
    /\ Len(t) > Len(opening) + 2 => ~IsSpace(t[Len(opening) + 3])

\* C26: for every recognized directive line, whatever white space stands
\* around the marker and the pipe, the normalized line starts with the
\* marker, the pipe and exactly one space, and then the rest of the line
\* without leading white space
C26_OneSpaceAfterPipe ==
    (/\ xpc = "fixed" /\ xfix.raised = "none"
     /\ xlang \notin BlockLangs \cup {"sas"}
     /\ MatchQuartoAt(format_directive(xlang).re, xfix.line, 0) >= 0) =>
        OneSpaceAfterPipe(xfix.once, Opening(xlang))

(***************************************************************************)
(* C28: markers other than the hash                                        *)
(***************************************************************************)
\* the source "M| name arg\nx" for the marker M of the language
NameArgOf(language) ==
    CASE language = "python" -> Src_hash_name
      [] language = "scala" -> Src_slash_name
      [] language = "sql" -> Src_dash_name
      [] language = "matlab" -> Src_percent_name

\* C28: for a language whose marker M is one token other than the hash, the
\* leading line `M| name arg` is a directive line and gives the directive
\* `name` with the argument `arg`, as `#| name arg` does for python
C28_OtherMarkers ==
    (/\ xpc = "done"
     /\ xlang \in {"python", "scala", "sql", "matlab"}
     /\ xcell.source.s = NameArgOf(xlang)) =>
        /\ xout.raised = "none"
        /\ xout.directives_ =
                <<[directive |-> <<"n", "a", "m", "e">>, args |-> <<<<"a", "r", "g">>>>]>>

(***************************************************************************)
(* C25: what extraction at load leaves alone                               *)
(***************************************************************************)
\* the stripped source starts with a shell or magic escape character
StartsWithEscape(text) == text # <<>> /\ text[1] \in {"!", "%"}

Exempt(cell) ==
    \/ cell.cell_type # "code"
    \/ cell.source.k = "str" /\ StartsWithEscape(strip(cell.source.s))

\* the NotebookProcessor has just been constructed, or its construction raised
JustLoaded == pc \in {"begin", "done", "raised"} /\ p = 1 /\ trace = <<>>

\* C25: at load, extraction changes only code cells whose stripped source
\* does not start with a shell or magic escape character; every markdown or
\* raw cell, and every code cell that starts with such a character, has an
\* empty mapping and the source it was loaded with
C25_OnlyPlainCodeCells ==
    JustLoaded =>
        \A c \in DOMAIN loaded :
            Exempt(loaded[c]) =>
                /\ heap[c].source = loaded[c].source
                /\ heap[c].directives_ = <<>>

=============================================================================
